---- MODULE Spec2Model ----
(***************************************************************************)
(* Model of the spot hedging bot: the backtest simulator                   *)
(* (backtest/portfolio.py, backtest/execution.py, backtest/backtester.py), *)
(* the live risk-check job of the bot (bot/handlers.py, database.py) and   *)
(* the estimators of core/risk_engine.py (beta and its cache, historical   *)
(* VaR, the order-book walk).  Four specifications share the variables:    *)
(* Spec (a backtest run), LiveSpec (commands and the periodic job),        *)
(* BetaSpec (concurrent calculate_beta calls) and RiskSpec (the stateless  *)
(* estimators).                                                            *)
(*                                                                         *)
(* Numbers.  The program computes in binary floating point.  The model     *)
(* computes in decimal fixed point: a quantity is an integer number of     *)
(* 1/QScale units (0.0001 BTC), a price is a whole number of USD, and a    *)
(* USD amount (quantity * price) is an integer number of 1/QScale USD.     *)
(* A division rounds to the nearest representable value (RDiv), a          *)
(* multiplication by a rate rounds down (MulRate); on the inputs drawn     *)
(* here the products are exact.  A quantity of magnitude < 1e-9 is the     *)
(* fixed-point value 0.  The keys of the backtest holdings map are kept    *)
(* in held; in the live table a quantity 0 stands for "no row".            *)
(***************************************************************************)
EXTENDS Integers, Sequences, FiniteSets, TLC

VARIABLES
    \* ---- Backtester / SimulatedPortfolio ----
    strategy,            \* Backtester.strategy (strategy_config)
    bars,                \* merged data rows consumed so far: <<[spot, perp], ...>>
    pc,                  \* position of Backtester.run: "new", "running", "reported"
    cash,                \* SimulatedPortfolio.cash
    holdings,            \* SimulatedPortfolio.holdings: quantity per symbol (get(symbol, 0))
    held,                \* the keys of SimulatedPortfolio.holdings
    positions_value,     \* SimulatedPortfolio.positions_value
    total_commissions,   \* SimulatedPortfolio.total_commissions
    realized_hedge_pnl,  \* SimulatedPortfolio.realized_hedge_pnl
    perp_cost_basis,     \* SimulatedPortfolio.perp_cost_basis
    history,             \* SimulatedPortfolio.history: the logged total_value column
    decision,            \* locals of the last loop iteration of Backtester.run
    last_fill,           \* the fill returned by execute_order in that iteration
    fills,               \* the fill events passed to on_fill so far, in order
    report,              \* what generate_report computed
    \* ---- live bot: database tables and the risk_check_job ----
    positions,           \* table positions: chat_id -> configuration row or NoRow
    db_holdings,         \* table portfolio_holdings: chat_id -> [spot, perp], 0 = absent
    hedge_history,       \* table hedge_history: sequence of logged hedges
    job,                 \* risk_check_job: its position, price snapshot, configs snapshot
    ncmds,               \* number of commands handled so far
    outcome,             \* per chat_id: what the running/last cycle did for it
    alerts,              \* per chat_id: the alert messages of the job kept in the chat
    \* ---- RiskEngine: the beta cache and the calls of calculate_beta ----
    beta_cache,          \* RiskEngine.beta_cache: cache_key -> {beta, timestamp}
    now,                 \* time.time(), in hours
    calls,               \* per task: the position and locals of its calculate_beta call
    \* ---- RiskEngine: the last calls of its stateless estimators ----
    var_call,            \* calculate_historical_var: arguments, fetched history, result
    estimate,            \* estimate_slippage_and_cost: arguments and result
    routing,             \* find_best_execution_venue: size, fetched books, result
    greeks_call,         \* calculate_option_greeks: arguments and result
    portfolio_risk,      \* calculate_portfolio_risk: arguments and result
    \* ---- SimulatedPortfolio.on_fill applied to a drawn portfolio and order ----
    ledger               \* the portfolio before, the fill event, the portfolio after

btVars == <<strategy, bars, pc, cash, holdings, held, positions_value, total_commissions,
            realized_hedge_pnl, perp_cost_basis, history, decision, last_fill, fills,
            report>>
liveVars == <<positions, db_holdings, hedge_history, job, ncmds, outcome, alerts>>
betaVars == <<beta_cache, now, calls>>
riskVars == <<var_call, estimate>>
routeVars == <<routing>>
greekVars == <<greeks_call, portfolio_risk>>
fillVars == <<ledger>>
engVars == <<betaVars, riskVars, routeVars, greekVars, fillVars>>
vars == <<btVars, liveVars, engVars>>

(***************************************************************************)
(* Units and arithmetic                                                    *)
(***************************************************************************)
QScale == 10 ^ 4            \* fixed-point units per 1.0 of quantity and per 1 USD
RateDen == 10 ^ 4           \* rates are parts per 10,000

Abs(x) == IF x < 0 THEN -x ELSE x
Sgn(x) == IF x > 0 THEN 1 ELSE IF x < 0 THEN -1 ELSE 0
Min(a, b) == IF a < b THEN a ELSE b

\* a / b rounded to the nearest integer, halves away from zero (b # 0)
RDiv(a, b) ==
    Sgn(a) * Sgn(b) * ((Abs(a) \div Abs(b)) + (IF 2 * (Abs(a) % Abs(b)) >= Abs(b) THEN 1 ELSE 0))

\* x * num / RateDen rounded down, x >= 0, without a large intermediate product
MulRate(x, num) == (x \div RateDen) * num + ((x % RateDen) * num) \div RateDen

(***************************************************************************)
(* Bounds of the model and constants of the program                        *)
(***************************************************************************)
MaxBars == 4                \* longest price series replayed

Dust == 10                  \* 0.001 units: "Avoid dust trades"
PerpExistsFloor == 10       \* 0.001 units: "Check if a hedge position exists"
FeeRate == 6                \* fee_rate = 0.0006
SlippagePct == 5            \* slippage_pct = 0.0005

\* rows of the merged series: close_spot, close_perp (whole USD)
BarSet == { [spot |-> 50000, perp |-> 50000],
            [spot |-> 40000, perp |-> 40000],
            [spot |-> 20000, perp |-> 50000],
            [spot |-> 50000, perp |-> 40000] }

\* strategy_config values drawn for a run
StrategySet ==
    [ initial_capital      : {100000 * QScale},
      initial_spot_holding : {0, 20, QScale},       \* 0.0, 0.002 and 1.0
      hedge_ratio          : {6, 10},               \* 0.6 and 1.0
      delta_threshold      : {10 * QScale, 1000 * QScale},
      use_regime_filter    : BOOLEAN,
      ma                   : { [fast |-> 1, slow |-> 2], [fast |-> 2, slow |-> 3] } ]

NoFill == [asset |-> "none", quantity |-> 0, fill_price |-> 0, cost |-> 0,
           commission |-> 0, slippage_cost |-> 0]
NoDecision == [evaluated |-> FALSE, regime |-> "NONE", delta_to_correct |-> 0,
               trade_needed |-> FALSE, contracts_to_trade |-> 0]
NoReport == [status |-> "none", spot_pnl |-> 0, hedge_pnl |-> 0, total_costs |-> 0,
             net_pnl |-> 0]

(***************************************************************************)
(* SimulatedExecutionHandler.execute_order                                 *)
(***************************************************************************)
ExecuteOrderFavourable(order, market_price) ==
    LET quantity == order.quantity
        direction == IF quantity > 0 THEN -1 ELSE 1
        slippage_per_unit == RDiv(market_price * SlippagePct, RateDen) * direction
        fill_price == market_price + slippage_per_unit
        cost == quantity * fill_price
    IN  [asset |-> order.asset, quantity |-> quantity, fill_price |-> fill_price,
         cost |-> cost, commission |-> MulRate(Abs(cost), FeeRate),
         slippage_cost |-> Abs(quantity * slippage_per_unit)]

ExecuteOrderSlippageUnreported(order, market_price) ==
    LET quantity == order.quantity
        direction == IF quantity > 0 THEN 1 ELSE -1
        slippage_per_unit == RDiv(market_price * SlippagePct, RateDen) * direction
        fill_price == market_price + slippage_per_unit
        cost == quantity * fill_price
    IN  [asset |-> order.asset, quantity |-> quantity, fill_price |-> fill_price,
         cost |-> cost, commission |-> MulRate(Abs(cost), FeeRate),
         slippage_cost |-> 0]

execute_order(order, market_price) ==
    LET quantity == order.quantity
        direction == IF quantity > 0 THEN 1 ELSE -1
        slippage_per_unit == RDiv(market_price * SlippagePct, RateDen) * direction
        fill_price == market_price + slippage_per_unit
        cost == quantity * fill_price
        commission == MulRate(Abs(cost), FeeRate)
        slippage_cost == Abs(quantity * slippage_per_unit)
    IN  [asset |-> order.asset, quantity |-> quantity, fill_price |-> fill_price,
         cost |-> cost, commission |-> commission, slippage_cost |-> slippage_cost]

(***************************************************************************)
(* SimulatedPortfolio                                                      *)
(***************************************************************************)
direction_of(n) == IF n > 0 THEN 1 ELSE -1

\* cash after a fill: self.cash -= (quantity * fill_price) + commission
CashAfterFillNoCommission(c, fill) == c - (fill.quantity * fill.fill_price)
CashAfterFill(c, fill) == c - ((fill.quantity * fill.fill_price) + fill.commission)

\* the realized P&L booked by a perp fill
RealizedPnlOfFill(cur, basis, fill) ==
    IF cur # 0 /\ ((fill.quantity > 0) # (cur > 0))
    THEN LET closed_quantity == Min(Abs(fill.quantity), Abs(cur))
         IN  (fill.fill_price - basis) * (-direction_of(cur) * closed_quantity)
    ELSE 0

\* Quantities are floats in the program.  A closing quantity is computed as
\* -(holding * price) / price, which is the holding's opposite or one ulp off, so
\* a sum that is zero here is 0.0 or a residue of some 1e-16 of either sign there.
FloatResidues(cur, quantity) ==
    IF cur # 0 /\ cur + quantity = 0 THEN {-1, 0, 1} ELSE {0}

\* the cost basis after a perp fill: new_holding != 0 is an exact comparison,
\* which a residue passes, and the quotient by it is beyond every price
CostBasisAfterFill(cur, basis, fill, residue) ==
    LET new_holding == cur + fill.quantity
        weighted == (basis * cur) + (fill.quantity * fill.fill_price)
    IN  IF new_holding # 0 THEN RDiv(weighted, new_holding)
        ELSE IF residue # 0 THEN Sgn(weighted) * residue * (10 ^ 9)
        ELSE 0

\* holdings after a fill: the symbol is deleted (0) when |quantity| < 1e-9, which
\* a residue is
HoldingsAfterFill(h, fill) ==
    [h EXCEPT ![fill.asset] = h[fill.asset] + fill.quantity]

\* the keys of holdings after a fill: the symbol is set, then deleted when the
\* new quantity is below 1e-9 in magnitude
HeldAfterFill(keys, h, fill) ==
    IF HoldingsAfterFill(h, fill)[fill.asset] = 0
    THEN keys \ {fill.asset}
    ELSE keys \cup {fill.asset}

\* SimulatedPortfolio.on_fill (the second definition, which replaces the first)
on_fill(p, fill, residue) ==
    LET isPerp == fill.asset = "BTC_perp"
        cur == p.holdings[fill.asset]
    IN  [p EXCEPT
            !.total_commissions = p.total_commissions + fill.commission,
            !.cash = CashAfterFill(p.cash, fill),
            !.realized_hedge_pnl =
                IF isPerp THEN p.realized_hedge_pnl + RealizedPnlOfFill(cur, p.perp_cost_basis, fill)
                ELSE p.realized_hedge_pnl,
            !.perp_cost_basis =
                IF isPerp THEN CostBasisAfterFill(cur, p.perp_cost_basis, fill, residue)
                ELSE p.perp_cost_basis,
            !.holdings = HoldingsAfterFill(p.holdings, fill),
            !.held = HeldAfterFill(p.held, p.holdings, fill)]

\* SimulatedPortfolio.update_market_value
MarketValue(h, prices) == h.BTC_spot * prices.spot + h.BTC_perp * prices.perp

\* SimulatedPortfolio.total_value
total_value == cash + positions_value

\* the portfolio fields as one record
Portfolio ==
    [cash |-> cash, holdings |-> holdings, held |-> held,
     total_commissions |-> total_commissions,
     realized_hedge_pnl |-> realized_hedge_pnl, perp_cost_basis |-> perp_cost_basis]

(***************************************************************************)
(* Backtester.run: regime filter (rolling means of close_spot)             *)
(***************************************************************************)
RECURSIVE SumLast(_, _)
\* the sum of the last n spot closes of rows
SumLast(rows, n) ==
    IF n = 0 \/ rows = <<>> THEN 0
    ELSE rows[Len(rows)].spot + SumLast(SubSeq(rows, 1, Len(rows) - 1), n - 1)

\* rolling(window).mean() is NaN on a row that has fewer than window rows up to it
MaIsNaN(rows, window) == Len(rows) < window

\* data['is_bearish'] = fast_ma < slow_ma on the last row of rows (False with a NaN)
is_bearish(rows, ma) ==
    /\ ~MaIsNaN(rows, ma.fast)
    /\ ~MaIsNaN(rows, ma.slow)
    /\ SumLast(rows, ma.fast) * ma.slow < SumLast(rows, ma.slow) * ma.fast

\* "Skip initial period where Moving Averages are not yet calculated"
SkipBarNever(rows, strat) == FALSE
SkipBar(rows, strat) == MaIsNaN(rows, strat.ma.slow) /\ strat.use_regime_filter

\* should_hedge_now of an evaluated row
ShouldHedgeNow(rows, strat) ==
    IF strat.use_regime_filter THEN is_bearish(rows, strat.ma) ELSE TRUE

\* the regime of the specification, for an evaluated or skipped row
Regime(rows, strat) ==
    IF ~strat.use_regime_filter THEN "NEUTRAL"
    ELSE IF MaIsNaN(rows, strat.ma.slow) THEN "UNDETERMINED"
    ELSE IF is_bearish(rows, strat.ma) THEN "BEARISH"
    ELSE "BULLISH"

(***************************************************************************)
(* Backtester.run: steps 3 to 7 of the loop body, the hedging decision     *)
(***************************************************************************)
\* x * k / 10 for a hedge ratio k in tenths
MulTenths(x, k) == Sgn(x) * ((Abs(x) \div 10) * k + RDiv((Abs(x) % 10) * k, 10))

\* step 3: target_delta = spot_value * (1 - hedge_ratio), the exposure to keep
TargetDeltaHedgedPart(spot_value, hedge_ratio) == MulTenths(spot_value, hedge_ratio)
TargetDelta(spot_value, hedge_ratio) == MulTenths(spot_value, 10 - hedge_ratio)

\* step 6, hedge-on branch: abs(delta_to_correct) > delta_threshold
ExceedsThresholdSigned(delta, threshold) == delta > threshold
ExceedsThreshold(delta, threshold) == Abs(delta) > threshold

\* step 6, hedge-off branch: abs(current_perp_holding) > 0.001
PerpPositionExistsLong(current_perp_holding) == current_perp_holding > PerpExistsFloor
PerpPositionExists(current_perp_holding) == Abs(current_perp_holding) > PerpExistsFloor

\* step 7: abs(contracts_to_trade) > 0.001
NotDustCoarse(contracts_to_trade) == Abs(contracts_to_trade) > 100 * Dust
NotDust(contracts_to_trade) == Abs(contracts_to_trade) > Dust

\* steps 3 to 7 for holdings h at prices, as the locals of the iteration
BacktestDecide(h, prices, strat, should_hedge_now) ==
    LET spot_value == h.BTC_spot * prices.spot
        target_delta == TargetDelta(spot_value, strat.hedge_ratio)
        perp_value == h.BTC_perp * prices.perp
        current_delta == spot_value + perp_value
        hedge_on_delta == current_delta - target_delta
        close_hedge == ~should_hedge_now /\ PerpPositionExists(h.BTC_perp)
        delta_to_correct == IF close_hedge THEN perp_value ELSE hedge_on_delta
        trade_needed ==
            IF should_hedge_now
            THEN ExceedsThreshold(hedge_on_delta, strat.delta_threshold)
            ELSE close_hedge
        contracts_to_trade == RDiv(-delta_to_correct, prices.perp)
    IN  [evaluated |-> TRUE,
         delta_to_correct |-> delta_to_correct,
         trade_needed |-> trade_needed,
         contracts_to_trade |-> IF trade_needed THEN contracts_to_trade ELSE 0,
         fills |-> trade_needed /\ NotDust(contracts_to_trade)]

(***************************************************************************)
(* Backtester: construction, run, generate_report                          *)
(***************************************************************************)
InitBacktest ==
    /\ strategy \in StrategySet
    /\ bars = <<>>
    /\ pc = "new"
    /\ cash = strategy.initial_capital
    /\ holdings = [BTC_spot |-> 0, BTC_perp |-> 0]
    /\ held = {}
    /\ positions_value = 0
    /\ total_commissions = 0
    /\ realized_hedge_pnl = 0
    /\ perp_cost_basis = 0
    /\ history = <<>>
    /\ decision = NoDecision
    /\ last_fill = NoFill
    /\ fills = <<>>
    /\ report = NoReport

\* run, up to the loop: "Set initial portfolio holding (buy the spot asset)"
StartRun ==
    /\ pc = "new"
    /\ \E row \in BarSet :
        /\ bars' = <<row>>
        /\ holdings' = [holdings EXCEPT !.BTC_spot = strategy.initial_spot_holding]
        /\ held' = held \cup {"BTC_spot"}
        /\ cash' = cash - strategy.initial_spot_holding * row.spot
    /\ pc' = "first"
    /\ UNCHANGED <<strategy, positions_value, total_commissions, realized_hedge_pnl,
                   perp_cost_basis, history, decision, last_fill, fills, report>>

\* one iteration of the loop, on the last row of rows
LoopBody(rows) ==
    LET row == rows[Len(rows)] IN
    IF SkipBar(rows, strategy)
    THEN /\ decision' = [NoDecision EXCEPT !.regime = Regime(rows, strategy)]
         /\ last_fill' = NoFill
         /\ UNCHANGED <<cash, holdings, held, positions_value, total_commissions,
                        realized_hedge_pnl, perp_cost_basis, history, fills>>
    ELSE \E residue \in FloatResidues(holdings.BTC_perp,
             BacktestDecide(holdings, row, strategy,
                            ShouldHedgeNow(rows, strategy)).contracts_to_trade) :
         LET pv == MarketValue(holdings, row)
             d == BacktestDecide(holdings, row, strategy, ShouldHedgeNow(rows, strategy))
             order == [asset |-> "BTC_perp", quantity |-> d.contracts_to_trade]
             fill == IF d.fills THEN execute_order(order, row.perp) ELSE NoFill
             after == IF d.fills THEN on_fill(Portfolio, fill, residue) ELSE Portfolio
         IN  /\ positions_value' = pv
             /\ history' = Append(history, cash + pv)
             /\ decision' = [evaluated |-> TRUE, regime |-> Regime(rows, strategy),
                             delta_to_correct |-> d.delta_to_correct,
                             trade_needed |-> d.trade_needed,
                             contracts_to_trade |-> d.contracts_to_trade]
             /\ last_fill' = fill
             /\ fills' = IF d.fills THEN Append(fills, fill) ELSE fills
             /\ cash' = after.cash
             /\ holdings' = after.holdings
             /\ held' = after.held
             /\ total_commissions' = after.total_commissions
             /\ realized_hedge_pnl' = after.realized_hedge_pnl
             /\ perp_cost_basis' = after.perp_cost_basis

\* the first iteration: row 0, whose close already priced the initial holding
FirstBar ==
    /\ pc = "first"
    /\ pc' = "running"
    /\ bars' = bars
    /\ LoopBody(bars)
    /\ UNCHANGED <<strategy, report>>

\* a later iteration, on the next row of the series
NextBar ==
    /\ pc = "running"
    /\ Len(bars) < MaxBars
    /\ \E row \in BarSet :
        /\ bars' = Append(bars, row)
        /\ LoopBody(Append(bars, row))
    /\ pc' = "running"
    /\ UNCHANGED <<strategy, report>>

\* generate_report, section 3 ("Performance Attribution Analysis"), after the last row
GenerateReport ==
    /\ pc = "running"
    /\ pc' = "reported"
    /\ LET last == bars[Len(bars)]
           initial_spot_price == bars[1].spot
           spot_qty == strategy.initial_spot_holding
           net_pnl_hedged == total_value - strategy.initial_capital
           spot_pnl == (last.spot - initial_spot_price) * spot_qty
       IN  report' =
             IF history = <<>>
             THEN [NoReport EXCEPT !.status = "IndexError"]   \* perf[...].iloc[-1] on no rows
             ELSE IF holdings.BTC_perp # 0
             THEN [NoReport EXCEPT !.status = "KeyError"]     \* perp_data has no 'close_perp'
             ELSE [status |-> "ok", spot_pnl |-> spot_pnl,
                   hedge_pnl |-> realized_hedge_pnl,
                   total_costs |-> total_commissions,
                   net_pnl |-> net_pnl_hedged]
    /\ UNCHANGED <<strategy, bars, cash, holdings, held, positions_value,
                   total_commissions, realized_hedge_pnl, perp_cost_basis, history,
                   decision, last_fill, fills>>

(***************************************************************************)
(* Live bot: the tables of database.py                                     *)
(***************************************************************************)
Users == {1, 2}             \* chat ids

\* a row of table positions; large_trade_threshold 0 is NULL (both are falsy when read)
NoRow == [present |-> FALSE, size |-> 0, delta_threshold |-> 0,
          auto_hedge_enabled |-> FALSE, large_trade_threshold |-> 0,
          hedge_ratio |-> 10, use_regime_filter |-> FALSE]

NoHoldings == [spot |-> 0, perp |-> 0]

UpsertHoldingReplace(tbl, chat_id, kind, quantity_change) ==
    [tbl EXCEPT ![chat_id][kind] = quantity_change]

\* DatabaseManager.upsert_holding: add quantity_change; the row is deleted (0) when
\* the new quantity is below 1e-9 in magnitude
upsert_holding(tbl, chat_id, kind, quantity_change) ==
    [tbl EXCEPT ![chat_id][kind] = tbl[chat_id][kind] + quantity_change]

\* DatabaseManager.log_hedge
log_hedge(tbl, chat_id, size) ==
    Append(tbl, [chat_id |-> chat_id, hedge_type |-> "perp",
                 action |-> IF size < 0 THEN "short" ELSE "long", size |-> size])

\* DatabaseManager.get_all_positions: the rows in chat_id order
RECURSIVE RowsInOrder(_, _)
RowsInOrder(tbl, from) ==
    IF from \notin Users THEN <<>>
    ELSE (IF tbl[from].present THEN <<from>> ELSE <<>>) \o RowsInOrder(tbl, from + 1)

(***************************************************************************)
(* Live bot: inputs                                                        *)
(***************************************************************************)
MaxHedges == 2              \* hedge_history rows after which no new cycle starts
MaxCmds == 4                \* commands the users send
MaxAlerts == 1              \* alert messages a user keeps; an older one is dismissed

Unavailable == 0            \* get_price returned None
LiveSpotPrices == {Unavailable, 50000}
LivePerpPrices == {Unavailable, 50000, 40000}
\* /monitor_risk BTC 0.0005 10 and /monitor_risk BTC 1.0 1000
MonitorArgs == { [size |-> 5, delta_threshold |-> 10 * QScale],
                 [size |-> QScale, delta_threshold |-> 1000 * QScale] }
\* the prices get_price answers while they do not change
QuotedPrices == [spot |-> 50000, perp |-> 40000]
LimitArgs == {"off", "20000", "-1"}
LimitValue(arg) == IF arg = "20000" THEN 20000 * QScale ELSE -1 * QScale
StrategyArgs == { [hedge_ratio |-> 6, filter |-> "off"], [hedge_ratio |-> 15, filter |-> "on"] }
\* the texts sent to the "Adjust Thresholds" conversation
AdjustArgs == {"/skip", "1000", "0", "abc"}
\* float(text): the threshold, or ValueError
FloatRaises(text) == text \notin {"1000", "0"}
FloatOf(text) == IF text = "1000" THEN 1000 * QScale ELSE 0

(***************************************************************************)
(* Live bot: configuration commands of bot/handlers.py                     *)
(***************************************************************************)
\* monitor_risk_command: clear the holdings, store a fresh configuration row (the
\* optional fields take upsert_position's defaults), add the spot holding
monitor_risk_command(u) ==
    \E arg \in MonitorArgs :
        /\ positions' = [positions EXCEPT ![u] =
               [NoRow EXCEPT !.present = TRUE, !.size = arg.size,
                             !.delta_threshold = arg.delta_threshold]]
        /\ db_holdings' = upsert_holding([db_holdings EXCEPT ![u] = NoHoldings],
                                         u, "spot", arg.size)
        /\ UNCHANGED <<hedge_history, job, outcome, alerts>>

\* auto_hedge_command
auto_hedge_command(u) ==
    /\ positions[u].present
    /\ \E status \in {"on", "off"} :
        positions' = [positions EXCEPT ![u].auto_hedge_enabled = (status = "on")]
    /\ UNCHANGED <<db_holdings, hedge_history, job, outcome, alerts>>

\* set_large_trade_limit_command: "off" stores NULL, a limit <= 0 is refused
set_large_trade_limit_command(u) ==
    /\ positions[u].present
    /\ \E arg \in LimitArgs :
        positions' =
            IF arg = "off" THEN [positions EXCEPT ![u].large_trade_threshold = 0]
            ELSE IF LimitValue(arg) <= 0 THEN positions
            ELSE [positions EXCEPT ![u].large_trade_threshold = LimitValue(arg)]
    /\ UNCHANGED <<db_holdings, hedge_history, job, outcome, alerts>>

\* configure_strategy_command: a hedge ratio outside [0, 1] is refused
configure_strategy_command(u) ==
    /\ positions[u].present
    /\ \E arg \in StrategyArgs :
        positions' =
            IF ~(0 <= arg.hedge_ratio /\ arg.hedge_ratio <= 10) THEN positions
            ELSE [positions EXCEPT ![u].hedge_ratio = arg.hedge_ratio,
                                   ![u].use_regime_filter = (arg.filter = "on")]
    /\ UNCHANGED <<db_holdings, hedge_history, job, outcome, alerts>>

\* adjust_delta_received: the text is stored as the threshold unless it is /skip
\* or not a number (without a stored row the handler raises before any write)
adjust_delta_received(u) ==
    /\ positions[u].present
    /\ \E text \in AdjustArgs :
        positions' =
            IF text = "/skip" \/ FloatRaises(text) THEN positions
            ELSE [positions EXCEPT ![u].delta_threshold = FloatOf(text)]
    /\ UNCHANGED <<db_holdings, hedge_history, job, outcome, alerts>>

(***************************************************************************)
(* Live bot: risk_check_job and execute_hedge_logic                        *)
(***************************************************************************)
IdleJob == [pc |-> "idle", spot |-> 0, perp |-> 0, configs |-> [u \in Users |-> NoRow],
            todo |-> <<>>, size |-> 0]

\* RiskEngine.calculate_perp_hedge: required_hedge_contracts
calculate_perp_hedge(spot_position_usd, perp_price, beta) ==
    LET required_hedge_usd == MulTenths(-spot_position_usd, beta)
    IN  RDiv(required_hedge_usd, perp_price)

\* step 2 of the job: the net portfolio delta of the holdings (spot and perp rows)
NetPortfolioDelta(h, spot_price, perp_price) == h.spot * spot_price + h.perp * perp_price

\* step 3: abs(net_portfolio_delta_usd) > config['delta_threshold']
ThresholdBreached(net, delta_threshold) == Abs(net) > delta_threshold

\* step 5: the large-trade safety check of the auto-hedge branch
IsLargeTradeNoLimit(limit, hedge_value_usd) == FALSE
IsLargeTrade(limit, hedge_value_usd) == limit # 0 /\ hedge_value_usd > limit

\* step 5: whether the job executes by itself
AutoExecutesAlways(config) == TRUE
AutoExecutes(config) == config.auto_hedge_enabled

\* steps 2 to 5 for one configured user: what the job does with the holdings h
LiveDecide(h, spot_price, perp_price, config) ==
    LET net == NetPortfolioDelta(h, spot_price, perp_price)
        breached == ThresholdBreached(net, config.delta_threshold)
        contracts == calculate_perp_hedge(net, perp_price, 10)
        hedge_value_usd == Abs(contracts * perp_price)
    IN  IF h = NoHoldings THEN [what |-> "no_holdings", size |-> 0]
        ELSE IF ~breached THEN [what |-> "within_threshold", size |-> 0]
        ELSE IF AutoExecutes(config)
                /\ ~IsLargeTrade(config.large_trade_threshold, hedge_value_usd)
             THEN [what |-> "execute", size |-> contracts]
        ELSE IF AutoExecutes(config)
             THEN [what |-> "large_trade_alert", size |-> contracts]
        ELSE [what |-> "alert", size |-> contracts]

\* if not btc_spot_price or not btc_perp_price
PricesMissingPerpOnly(spot_price, perp_price) == perp_price = Unavailable
PricesMissing(spot_price, perp_price) ==
    spot_price = Unavailable \/ perp_price = Unavailable

\* the messages the loop body sends for a decision, before execute_hedge_logic
Notifies(d) == d.what \in {"execute", "large_trade_alert", "alert"}


\* execute_hedge_logic: the venue search answered with a plan or None, or raised
\* (as did the report of the failure); with a plan the hedge is logged and the
\* perp holding upserted
execute_hedge_logic(chat_id, size, execution_plan) ==
    IF execution_plan = "plan"
    THEN /\ hedge_history' = log_hedge(hedge_history, chat_id, size)
         /\ db_holdings' = upsert_holding(db_holdings, chat_id, "perp", size)
    ELSE UNCHANGED <<hedge_history, db_holdings>>

\* button_callback_handler, branch "hedge_now": the message is edited (which may
\* raise, and then nothing is done), the size is parsed from the callback data,
\* execute_hedge_logic is called with it and the message is edited to its result:
\* the plan, the failure, or it stays "Finding best execution venue..." when
\* execute_hedge_logic raised
button_callback_handler(u) ==
    /\ Len(hedge_history) < MaxHedges
    /\ \E i \in 1..Len(alerts[u]), edited \in BOOLEAN,
          execution_plan \in {"plan", "None", "raised"} :
        /\ alerts[u][i].text = "alert"
        /\ IF edited
           THEN /\ alerts' = [alerts EXCEPT ![u][i].text =
                                  IF execution_plan = "plan" THEN "plan"
                                  ELSE IF execution_plan = "None" THEN "failed"
                                  ELSE "finding"]
                /\ execute_hedge_logic(u, alerts[u][i].size, execution_plan)
           ELSE UNCHANGED <<alerts, hedge_history, db_holdings>>
    /\ UNCHANGED <<positions, job, outcome>>

InitLive ==
    /\ positions = [u \in Users |-> NoRow]
    /\ db_holdings = [u \in Users |-> NoHoldings]
    /\ hedge_history = <<>>
    /\ job = IdleJob
    /\ ncmds = 0
    /\ outcome = [u \in Users |-> "none"]
    /\ alerts = [u \in Users |-> <<>>]

\* the job up to its loop: read the configurations, fetch the two prices once;
\* a cycle that returns for a missing price leaves the prices it got in job
JobStart ==
    /\ job.pc \in {"idle", "skipped"}
    /\ Len(hedge_history) < MaxHedges
    /\ RowsInOrder(positions, 1) # <<>>
    /\ \E spot_price \in LiveSpotPrices, perp_price \in LivePerpPrices :
        IF PricesMissing(spot_price, perp_price)
        THEN job' = [IdleJob EXCEPT !.pc = "skipped", !.spot = spot_price,
                                    !.perp = perp_price]
        ELSE job' = [IdleJob EXCEPT !.pc = "loop", !.spot = spot_price, !.perp = perp_price,
                                    !.configs = positions,
                                    !.todo = RowsInOrder(positions, 1)]
    /\ outcome' = [u \in Users |-> "none"]
    /\ UNCHANGED <<positions, db_holdings, hedge_history, ncmds, alerts>>

\* the loop body for the next configuration, up to the call of execute_hedge_logic.
\* send_message is awaited outside any try: when it raises, the exception leaves
\* the job and the cycle is over.  The callback data of the "Hedge Now" button of
\* an alert carries the recommended size with four decimals, which is the quantity
\* unit here; the button is there while the text is the alert.  An alert that the
\* user dismisses ("dismiss_alert") is not kept, and of those kept the oldest goes
\* beyond MaxAlerts.
JobEvalUser(dismissed) ==
    /\ job.pc = "loop"
    /\ job.todo # <<>>
    /\ LET u == Head(job.todo)
           d == LiveDecide(db_holdings[u], job.spot, job.perp, job.configs[u])
       IN  \E sent \in BOOLEAN :
           IF Notifies(d) /\ ~sent
           THEN /\ job' = IdleJob
                /\ outcome' = [outcome EXCEPT ![u] = "raised"]
                /\ UNCHANGED alerts
           ELSE IF d.what = "execute"
           THEN /\ job' = [job EXCEPT !.pc = "exec", !.size = d.size]
                /\ outcome' = [outcome EXCEPT ![u] = "auto_triggered"]
                /\ UNCHANGED alerts
           ELSE /\ job' = [job EXCEPT !.todo = Tail(job.todo)]
                /\ outcome' = [outcome EXCEPT ![u] = d.what]
                /\ alerts' =
                       IF d.what \in {"alert", "large_trade_alert"} /\ ~dismissed
                       THEN [alerts EXCEPT ![u] =
                               Append(IF Len(alerts[u]) < MaxAlerts THEN alerts[u]
                                      ELSE Tail(alerts[u]),
                                      [text |-> "alert", size |-> d.size])]
                       ELSE alerts
    /\ UNCHANGED <<positions, db_holdings, hedge_history, ncmds>>

\* execute_hedge_logic as called by the job: then the loop goes on with the next
\* configuration, or the exception leaves the job
JobExecute ==
    /\ job.pc = "exec"
    /\ LET u == Head(job.todo) IN
       \E execution_plan \in {"plan", "None", "raised"} :
        /\ execute_hedge_logic(u, job.size, execution_plan)
        /\ IF execution_plan = "plan"
           THEN /\ outcome' = [outcome EXCEPT ![u] = "auto_executed"]
                /\ job' = [job EXCEPT !.pc = "loop", !.todo = Tail(job.todo), !.size = 0]
           ELSE IF execution_plan = "None"
           THEN /\ outcome' = [outcome EXCEPT ![u] = "hedge_failed"]
                /\ job' = [job EXCEPT !.pc = "loop", !.todo = Tail(job.todo), !.size = 0]
           ELSE /\ outcome' = [outcome EXCEPT ![u] = "raised"]
                /\ job' = IdleJob
    /\ UNCHANGED <<positions, ncmds, alerts>>

\* the loop is over
JobEnd ==
    /\ job.pc = "loop"
    /\ job.todo = <<>>
    /\ job' = IdleJob
    /\ UNCHANGED <<positions, db_holdings, hedge_history, ncmds, outcome, alerts>>

(***************************************************************************)
(* RiskEngine.calculate_beta and its cache                                 *)
(*                                                                         *)
(* The coroutine runs on one event loop: it yields only at the await of    *)
(* the two historical fetches, so the cache check (BetaCall) and           *)
(* everything after the fetches (BetaFetched) are each one atomic step,    *)
(* and the clock and other calls move in between.  A symbol is the         *)
(* sequence of its parts, so that the cache key is the concatenation the   *)
(* f-string builds.  The regression itself is not computed: a fetched      *)
(* pair of histories carries the coefficient its returns would give.       *)
(***************************************************************************)
MaxTime == 4                \* hours the clock runs
Tasks == {1, 2}             \* concurrent callers of calculate_beta

CacheDurationSeconds == 4   \* cache_duration_seconds = 4 * 60 * 60, in hours
MinObservations == 30       \* "Need enough data points for a meaningful calculation"
DefaultBeta == 10           \* return 1.0, in tenths

\* (exchange, spot_symbol, perp_symbol) a call is made with
BetaArgs ==
    { [exchange |-> "bybit", spot_symbol |-> <<"BTC/USDT">>,
       perp_symbol |-> <<"BTC/USDT", ":", "USDT">>],
      [exchange |-> "bybit", spot_symbol |-> <<"ETH/USDT">>,
       perp_symbol |-> <<"ETH/USDT", ":", "USDT">>] }

\* cache_key = f"{exchange}:{spot_symbol}:{perp_symbol}"
cache_key(exchange, spot_symbol, perp_symbol) ==
    <<exchange, ":">> \o spot_symbol \o <<":">> \o perp_symbol

\* what fetch_historical_data gives for one instrument: a frame with the
\* timestamps of its rows, None, or an exception out of the gather
NoFrame == [outcome |-> "None", timestamps |-> {}]
RaisedFrame == [outcome |-> "raised", timestamps |-> {}]
Frame(days) == [outcome |-> "frame", timestamps |-> days]
SpotFrames == {NoFrame, Frame(1..10), Frame(1..90)}
PerpFrames == {NoFrame, RaisedFrame, Frame(1..90), Frame(61..90), Frame(62..90)}
\* Cov(spot, perp) / Var(perp) of the merged returns, in tenths
Regressions == {8, 12}

\* the results of a call
\* the state of a call: its position, its key, what the two fetches gave, what it
\* returned, whether from the cache and how old the entry then was, and how many
\* aligned rows the merge had
NoResult == [kind |-> "pending", beta |-> 0, from_cache |-> FALSE, age |-> 0,
             aligned |-> 0]
IdleCall == [pc |-> "idle", key |-> <<>>, spot |-> "none", perp |-> "none",
             result |-> NoResult]

\* step 1: time.time() - cached_data['timestamp'] < self.cache_duration_seconds
CacheFreshInclusive(entry, t) == t - entry.timestamp <= CacheDurationSeconds
CacheFresh(entry, t) == t - entry.timestamp < CacheDurationSeconds

\* step 2: the gather raised, or spot_df is None or perp_df is None
FetchFailedBoth(spot_df, perp_df) ==
    /\ spot_df.outcome # "frame"
    /\ perp_df.outcome # "frame"
FetchFailed(spot_df, perp_df) ==
    \/ spot_df.outcome = "raised" \/ perp_df.outcome = "raised"
    \/ spot_df.outcome = "None" \/ perp_df.outcome = "None"

\* step 3: pd.merge(..., on='timestamp'): the rows both frames have
merged_df(spot_df, perp_df) == spot_df.timestamps \cap perp_df.timestamps

\* step 3: len(merged_df) < 30
SparseNever(merged) == FALSE
Sparse(merged) == Cardinality(merged) < MinObservations

\* step 4: self.beta_cache[cache_key] = {'beta': beta, 'timestamp': time.time()}
CacheWriteKeepTimestamp(cache, key, beta, t) ==
    [k \in DOMAIN cache \cup {key} |->
        IF k # key THEN cache[k]
        ELSE [beta |-> beta,
              timestamp |-> IF key \in DOMAIN cache THEN cache[key].timestamp ELSE t]]
CacheWrite(cache, key, beta, t) ==
    [k \in DOMAIN cache \cup {key} |->
        IF k = key THEN [beta |-> beta, timestamp |-> t] ELSE cache[k]]

InitBeta ==
    /\ beta_cache = << >>
    /\ now = 0
    /\ calls = [t \in Tasks |-> IdleCall]

\* calculate_beta up to the await: the cache check
BetaCall(t) ==
    /\ calls[t].pc # "fetching"
    /\ \E a \in BetaArgs :
        LET key == cache_key(a.exchange, a.spot_symbol, a.perp_symbol)
            hit == key \in DOMAIN beta_cache /\ CacheFresh(beta_cache[key], now)
        IN  calls' = [calls EXCEPT ![t] =
                IF hit
                THEN [IdleCall EXCEPT !.pc = "returned", !.key = key,
                         !.result = [NoResult EXCEPT !.kind = "beta",
                                        !.beta = beta_cache[key].beta,
                                        !.from_cache = TRUE,
                                        !.age = now - beta_cache[key].timestamp]]
                ELSE [IdleCall EXCEPT !.pc = "fetching", !.key = key]]
    /\ UNCHANGED <<beta_cache, now>>

\* calculate_beta from the completion of the two fetches to its return
BetaFetched(t) ==
    /\ calls[t].pc = "fetching"
    /\ \E spot_df \in SpotFrames, perp_df \in PerpFrames, regression \in Regressions :
        LET key == calls[t].key
            merged == merged_df(spot_df, perp_df)
            done == [calls[t] EXCEPT !.pc = "returned", !.spot = spot_df.outcome,
                                     !.perp = perp_df.outcome]
        IN  IF FetchFailed(spot_df, perp_df)
            THEN /\ calls' = [calls EXCEPT ![t] =
                        [done EXCEPT !.result = [NoResult EXCEPT !.kind = "None"]]]
                 /\ UNCHANGED beta_cache
            ELSE IF Sparse(merged)
            THEN /\ calls' = [calls EXCEPT ![t] =
                        [done EXCEPT !.result = [NoResult EXCEPT !.kind = "beta",
                                !.beta = DefaultBeta, !.aligned = Cardinality(merged)]]]
                 /\ UNCHANGED beta_cache
            ELSE /\ calls' = [calls EXCEPT ![t] =
                        [done EXCEPT !.result = [NoResult EXCEPT !.kind = "beta",
                                !.beta = regression, !.aligned = Cardinality(merged)]]]
                 /\ beta_cache' = CacheWrite(beta_cache, key, regression, now)
    /\ UNCHANGED now

\* an hour passes
Tick ==
    /\ now < MaxTime
    /\ now' = now + 1
    /\ UNCHANGED <<beta_cache, calls>>

(***************************************************************************)
(* RiskEngine.calculate_historical_var                                     *)
(*                                                                         *)
(* The coroutine shares no state, so a call is one step that draws the     *)
(* arguments and what the fetch gives.  Sizes are in 1/QScale units, closes *)
(* in whole USD, values in 1/QScale USD.                                   *)
(***************************************************************************)
\* x * num / den, exact when den divides x
MulDiv(x, num, den) ==
    Sgn(x) * Sgn(num) * ((Abs(x) \div den) * Abs(num) + RDiv((Abs(x) % den) * Abs(num), den))

\* the portfolios and price dicts a caller passes
VarPosition(type, asset, size) == [type |-> type, asset |-> asset, size |-> size]
VarPortfolios ==
    { << >>,
      << VarPosition("spot", "BTC", 0) >>,
      << VarPosition("spot", "BTC", QScale) >>,
      << VarPosition("perp", "BTC", -QScale) >>,
      << VarPosition("spot", "BTC", QScale), VarPosition("perp", "BTC", -QScale) >>,
      << VarPosition("spot", "BTC", QScale), VarPosition("spot", "BTC", -QScale) >>,
      << VarPosition("spot", "ETH", 5 * QScale) >>,
      << VarPosition("spot", "BTC", QScale \div 2), VarPosition("spot", "ETH", 5 * QScale) >> }
VarPrices ==
    { << >>,
      [k \in { <<"BTC", "/USDT">> } |-> 50000],
      [k \in { <<"BTC", "/USDT">>, <<"ETH", "/USDT">> } |->
          IF k[1] = "BTC" THEN 50000 ELSE 3000] }

\* what fetch_historical_data gives: None, or a frame with these closes
NoHistory == [outcome |-> "None", close |-> << >>]
History(closes) == [outcome |-> "frame", close |-> closes]
VarHistories ==
    { NoHistory, History(<< >>), History(<<100>>), History(<<100, 110, 99>>),
      History(<<100, 110, 99, 99>>), History(<<100, 90, 99>>) }

\* prices.get(f"{pos['asset']}/USDT", 0)
PriceOf(prices, asset) ==
    IF <<asset, "/USDT">> \in DOMAIN prices THEN prices[<<asset, "/USDT">>] ELSE 0

\* step 1: the total of size * price over the positions of type 'spot'
RECURSIVE TotalSpotValue(_, _)
TotalSpotValue(portfolio, prices) ==
    IF portfolio = << >> THEN 0
    ELSE LET pos == Head(portfolio)
         IN  (IF pos.type = "spot" THEN pos.size * PriceOf(prices, pos.asset) ELSE 0)
             + TotalSpotValue(Tail(portfolio), prices)

\* "if total_value == 0: return 0.0"
ZeroValueNever(total) == FALSE
ZeroValue(total) == total = 0

\* step 2: "hist_df is None or hist_df.empty"
HistoryUnavailableNoneOnly(hist_df) == hist_df.outcome = "None"
HistoryUnavailable(hist_df) == hist_df.outcome = "None" \/ hist_df.close = << >>

\* steps 3 and 4: returns * total_value on the rows that have a return (the first
\* row has none)
SimulatedPnl(close, total) ==
    [i \in 1..(Len(close) - 1) |-> MulDiv(total, close[i + 1] - close[i], close[i])]

\* step 5: Series.quantile(1 - confidence_level) with confidence_level = 0.95:
\* linear interpolation between the order statistics around (n - 1) * 0.05
Quantile5(values) ==
    LET sorted == SortSeq(values, LAMBDA a, b : a < b)
        n == Len(sorted)
        lo == ((n - 1) * 5) \div 100
        frac == ((n - 1) * 5) % 100
    IN  IF n = 0 THEN [kind |-> "NaN", value |-> 0]
        ELSE IF lo + 2 > n THEN [kind |-> "value", value |-> sorted[lo + 1]]
        ELSE [kind |-> "value",
              value |-> sorted[lo + 1] + RDiv((sorted[lo + 2] - sorted[lo + 1]) * frac, 100)]

calculate_historical_var(portfolio, prices, hist_df) ==
    LET total == TotalSpotValue(portfolio, prices)
    IN  IF ZeroValue(total) THEN [kind |-> "value", value |-> 0]
        ELSE IF HistoryUnavailable(hist_df) THEN [kind |-> "None", value |-> 0]
        ELSE Quantile5(SimulatedPnl(hist_df.close, total))

NoVarCall == [portfolio |-> << >>, prices |-> << >>, hist_df |-> NoHistory,
              result |-> [kind |-> "pending", value |-> 0]]

VarCall ==
    /\ \E portfolio \in VarPortfolios, prices \in VarPrices, hist_df \in VarHistories :
        var_call' = [portfolio |-> portfolio, prices |-> prices, hist_df |-> hist_df,
                     result |-> calculate_historical_var(portfolio, prices, hist_df)]
    /\ UNCHANGED estimate

(***************************************************************************)
(* RiskEngine.estimate_slippage_and_cost                                   *)
(*                                                                         *)
(* A book level is <<price, volume>>: price in whole USD, volume and size  *)
(* in tenths of a unit, notional in tenths of a USD, average fill price in *)
(* 1/1000 USD.                                                             *)
(***************************************************************************)
PriceScale == 10 ^ 3

OrderBooks ==
    { [asks |-> << <<100, 10>>, <<101, 20>> >>, bids |-> << <<99, 10>>, <<98, 20>> >>],
      [asks |-> << <<100, 5>>, <<102, 5>>, <<104, 30>> >>,
       bids |-> << <<98, 20>>, <<96, 5>> >>],
      [asks |-> << >>, bids |-> << <<99, 10>> >>] }
OrderSizes == {0, 5, 10, 20, 30, 40, -20, -30}
OrderSides == {"buy", "sell"}

\* book_side = order_book['asks'] if side == 'buy' else order_book['bids']
BookSideBids(order_book, side) == order_book.bids
BookSide(order_book, side) == IF side = "buy" THEN order_book.asks ELSE order_book.bids

\* trade_volume = min(remaining_size, volume)
TradeVolumeWholeLevel(remaining_size, volume) == volume
TradeVolume(remaining_size, volume) == Min(remaining_size, volume)

\* the for loop over the levels: the volumes taken, total_cost and what remains
RECURSIVE WalkBook(_, _, _, _)
WalkBook(book_side, remaining_size, total_cost, taken) ==
    IF book_side = << >> \/ remaining_size <= 0
    THEN [taken |-> taken, total_cost |-> total_cost, remaining_size |-> remaining_size]
    ELSE LET price == Head(book_side)[1]
             volume == Head(book_side)[2]
             trade_volume == TradeVolume(remaining_size, volume)
         IN  WalkBook(Tail(book_side), remaining_size - trade_volume,
                      total_cost + trade_volume * price, Append(taken, trade_volume))

\* "if remaining_size > 0": the walked side holds less than the size, and
\* log.warning is called
LiquidityShortfall(order_book, size, side) ==
    WalkBook(BookSide(order_book, side), Abs(size), 0, << >>).remaining_size > 0

\* the exception the function ends with, if any: book_side[-1] on an empty walked
\* side, the division by abs(size) = 0, order_book[...][0] on an empty side
EstimateRaises(order_book, size, side) ==
    IF size # 0 /\ BookSide(order_book, side) = << >> THEN "IndexError"
    ELSE IF size = 0 THEN "ZeroDivisionError"
    ELSE IF order_book.asks = << >> \/ order_book.bids = << >> THEN "IndexError"
    ELSE "none"

\* the dict the function returns (when it does not raise)
estimate_slippage_and_cost(order_book, size, side) ==
    LET book_side == BookSide(order_book, side)
        walk == WalkBook(book_side, Abs(size), 0, << >>)
        total_cost ==
            IF walk.remaining_size > 0
            THEN walk.total_cost + walk.remaining_size * book_side[Len(book_side)][1]
            ELSE walk.total_cost
        avg_fill_price == RDiv(total_cost * PriceScale, Abs(size))
        mid_price == ((order_book.asks[1][1] + order_book.bids[1][1]) * PriceScale) \div 2
    IN  [avg_fill_price |-> avg_fill_price,
         total_cost_usd |-> total_cost,
         slippage_usd |-> RDiv((avg_fill_price - mid_price) * Abs(size), PriceScale)]

NoCostAnalysis == [avg_fill_price |-> 0, total_cost_usd |-> 0, slippage_usd |-> 0]

\* a call: the arguments, the exception or the returned dict, and what the call
\* did on the way (the volumes its loop took, whether it logged the warning)
NoEstimate == [order_book |-> [asks |-> << >>, bids |-> << >>], size |-> 0,
               side |-> "none", raised |-> "none", result |-> NoCostAnalysis,
               taken |-> << >>, warned |-> FALSE]

EstimateCall ==
    /\ \E order_book \in OrderBooks, size \in OrderSizes, side \in OrderSides :
        LET raised == EstimateRaises(order_book, size, side)
        IN  estimate' =
              [order_book |-> order_book, size |-> size, side |-> side,
               raised |-> raised,
               result |-> IF raised = "none"
                          THEN estimate_slippage_and_cost(order_book, size, side)
                          ELSE NoCostAnalysis,
               taken |-> WalkBook(BookSide(order_book, side), Abs(size), 0, << >>).taken,
               warned |-> LiquidityShortfall(order_book, size, side)]
    /\ UNCHANGED var_call

InitRisk ==
    /\ var_call = NoVarCall
    /\ estimate = NoEstimate

(***************************************************************************)
(* RiskEngine.find_best_execution_venue                                    *)
(*                                                                         *)
(* The coroutine shares no state: a call is one step that draws the size   *)
(* and what fetch_order_book gives for each venue (the venue's symbol only *)
(* feeds that fetch).  Fees and final costs are in 1/FeeDen of the         *)
(* notional's unit, so that the fee of 0.055% is exact.                    *)
(***************************************************************************)
FeeDen == 10 ^ 5
TakerFee == 55              \* fee_rate = 0.00055

Venues == <<"bybit", "okx">>

\* what fetch_order_book gives: None, or the book of the exchange
NoBook == [outcome |-> "None", book |-> [asks |-> << >>, bids |-> << >>]]
Book(asks, bids) == [outcome |-> "book", book |-> [asks |-> asks, bids |-> bids]]
FetchedBooks ==
    { NoBook,
      Book(<< <<100, 10>>, <<101, 20>> >>, << <<99, 10>>, <<98, 20>> >>),
      Book(<< <<100, 5>>, <<102, 5>>, <<104, 30>> >>, << <<99, 30>> >>),
      Book(<< >>, << <<99, 10>> >>),
      Book(<< <<100, 10>> >>, << >>) }
RouteSizes == {5, 20, 40, -5, -20, -30}

\* side = 'buy' if size > 0 else 'sell'
SideOf(size) == IF size > 0 THEN "buy" ELSE "sell"

\* the entry appended to results for a venue whose book was fetched
VenueAnalysis(venue, book, size) ==
    LET side == SideOf(size)
        cost_analysis == estimate_slippage_and_cost(book, size, side)
        fees_usd == Abs(cost_analysis.total_cost_usd * TakerFee)
        total_cost == cost_analysis.total_cost_usd * FeeDen
    IN  [venue |-> venue,
         avg_fill_price |-> cost_analysis.avg_fill_price,
         total_cost_usd |-> cost_analysis.total_cost_usd,
         slippage_usd |-> cost_analysis.slippage_usd,
         fees_usd |-> fees_usd,
         total_final_cost |-> IF side = "buy" THEN total_cost + fees_usd
                              ELSE total_cost - fees_usd]

\* the loop over the venues from venue number i on: the results list, or the
\* exception of the first estimate that raises
RECURSIVE VenueResults(_, _, _)
VenueResults(fetched, size, i) ==
    IF i > Len(Venues) THEN [raised |-> "none", results |-> << >>]
    ELSE LET venue == Venues[i]
             f == fetched[venue]
             raised == IF f.outcome = "book"
                       THEN EstimateRaises(f.book, size, SideOf(size)) ELSE "none"
             rest == VenueResults(fetched, size, i + 1)
         IN  IF raised # "none" THEN [raised |-> raised, results |-> << >>]
             ELSE IF rest.raised # "none" THEN rest
             ELSE [raised |-> "none",
                   results |-> (IF f.outcome = "book"
                                THEN << VenueAnalysis(venue, f.book, size) >>
                                ELSE << >>) \o rest.results]

\* min(results, key=total_final_cost) for a buy, max(...) for a sell: whether a
\* replaces the best b found so far
BetterLowest(side, a, b) == a.total_final_cost < b.total_final_cost
Better(side, a, b) ==
    IF side = "buy" THEN a.total_final_cost < b.total_final_cost
    ELSE a.total_final_cost > b.total_final_cost

RECURSIVE BestOf(_, _, _)
BestOf(side, best, results) ==
    IF results = << >> THEN best
    ELSE BestOf(side, IF Better(side, Head(results), best) THEN Head(results) ELSE best,
                Tail(results))

NoPlan == [venue |-> "none", avg_fill_price |-> 0, total_cost_usd |-> 0,
           slippage_usd |-> 0, fees_usd |-> 0, total_final_cost |-> 0]

\* the call: raised, returned None, or returned the best venue's analysis
find_best_execution_venue(fetched, size) ==
    LET r == VenueResults(fetched, size, 1)
    IN  IF r.raised # "none" THEN [raised |-> r.raised, returned |-> "raised", plan |-> NoPlan]
        ELSE IF r.results = << >> THEN [raised |-> "none", returned |-> "None", plan |-> NoPlan]
        ELSE [raised |-> "none", returned |-> "plan",
              plan |-> BestOf(SideOf(size), Head(r.results), Tail(r.results))]

NoRouting == [size |-> 0, fetched |-> [v \in {"bybit", "okx"} |-> NoBook],
              result |-> [raised |-> "none", returned |-> "pending", plan |-> NoPlan]]

RouteCall ==
    \E size \in RouteSizes, fetched \in [{"bybit", "okx"} -> FetchedBooks] :
        routing' = [size |-> size, fetched |-> fetched,
                    result |-> find_best_execution_venue(fetched, size)]

InitRoute == routing = NoRouting

(***************************************************************************)
(* RiskEngine.calculate_option_greeks and calculate_portfolio_risk         *)
(*                                                                         *)
(* Greeks are in 1/GreekDen, position sizes in tenths, so that a total is  *)
(* in 1/(10 * GreekDen) USD.  An instrument name is the sequence of its    *)
(* '-'-separated parts.  What the Black-Scholes library returns and what   *)
(* the GARCH model forecasts are inputs of a call.                         *)
(***************************************************************************)
GreekDen == 10 ^ 2

NoName == << >>
InstrumentNames ==
    { NoName,
      <<"BTC", "27JUN25", "60000", "C">>,
      <<"BTC/USDT">>,
      <<"BTC", "27JUN25", "sixty", "C">>,
      <<"BTC", "soon", "60000", "C">> }
\* float(parts[2]) succeeds
IsFloat(part) == part \in {"60000"}
\* strptime(expiry_str, '%d%b%y') succeeds
IsDate(part) == part \in {"27JUN25"}
\* 08:00 UTC on the expiry date, on the clock of a call
ExpiryDatetime(part) == 2
Clocks == {1, 3}

NoGreeksData == [delta |-> 0, gamma |-> 0, vega |-> 0, theta |-> 0, present |-> FALSE]
GreeksData(d, g, v, t) == [delta |-> d, gamma |-> g, vega |-> v, theta |-> t, present |-> TRUE]
NoMark == -1
Ticker(name, greeks, mark) == [name |-> name, greeks |-> greeks, mark |-> mark]
\* the greeks and the mark price of a ticker
TickerData ==
    { <<NoGreeksData, 2>>, <<GreeksData(50, 2, 20, -5), 2>>,
      <<GreeksData(50, 2, 20, -5), NoMark>> }
\* delta, gamma, vega, theta and price of the Black-Scholes library
LibraryGreeks == {[delta |-> 60, gamma |-> 3, vega |-> 3000, theta |-> -3650, price |-> 900]}
\* forecast.variance of the model, annualized: 0 is a forecast that is falsy
Forecasts == {0, 60}

NoGreeks == [returned |-> "None", path |-> "none",
             delta |-> 0, gamma |-> 0, vega |-> 0, theta |-> 0, price |-> 0]

\* get_forecasted_volatility: None (0) without a model
get_forecasted_volatility(garch_model, forecast) ==
    IF ~garch_model THEN 0 ELSE forecast

\* the split of the name gives expiry, strike and flag
ParseRaises(name) == Len(name) < 4 \/ ~IsFloat(name[3])

\* Path 1 is taken: use_ml_vol and self.garch_model
ForecastPath(use_ml_vol, garch_model) == use_ml_vol /\ garch_model

calculate_option_greeks(underlying_price, option_ticker, use_ml_vol, garch_model, forecast, clock, bs) ==
    IF option_ticker.name = NoName THEN NoGreeks
    ELSE IF ForecastPath(use_ml_vol, garch_model)
    THEN IF get_forecasted_volatility(garch_model, forecast) = 0 THEN NoGreeks
         ELSE IF ParseRaises(option_ticker.name) THEN NoGreeks
         ELSE IF ~IsDate(option_ticker.name[2]) THEN NoGreeks
         ELSE IF ExpiryDatetime(option_ticker.name[2]) - clock < 0 THEN NoGreeks
         ELSE [returned |-> "greeks", path |-> "forecast",
               delta |-> bs.delta, gamma |-> bs.gamma,
               vega |-> RDiv(bs.vega, 100), theta |-> RDiv(bs.theta, 365),
               price |-> bs.price]
    ELSE IF ~option_ticker.greeks.present THEN NoGreeks
         ELSE IF option_ticker.mark = NoMark THEN NoGreeks
         ELSE [returned |-> "greeks", path |-> "exchange",
               delta |-> option_ticker.greeks.delta, gamma |-> option_ticker.greeks.gamma,
               vega |-> option_ticker.greeks.vega, theta |-> option_ticker.greeks.theta,
               price |-> option_ticker.mark * underlying_price]

NoGreeksCall ==
    [called |-> FALSE, underlying_price |-> 0, use_ml_vol |-> FALSE, garch_model |-> FALSE,
     forecast |-> 0, clock |-> 0,
     option_ticker |-> Ticker(NoName, NoGreeksData, NoMark), result |-> NoGreeks]

GreeksCall ==
    \E name \in InstrumentNames, data \in TickerData,
       use_ml_vol \in BOOLEAN, garch_model \in BOOLEAN, forecast \in Forecasts,
       clock \in Clocks, bs \in LibraryGreeks :
        /\ garch_model \/ forecast = 0
        /\ greeks_call' =
              [called |-> TRUE, underlying_price |-> 50000, use_ml_vol |-> use_ml_vol,
               garch_model |-> garch_model, forecast |-> forecast, clock |-> clock,
               option_ticker |-> Ticker(name, data[1], data[2]),
               result |-> calculate_option_greeks(50000, Ticker(name, data[1], data[2]),
                                                  use_ml_vol, garch_model, forecast,
                                                  clock, bs)]
        /\ UNCHANGED portfolio_risk

\* ---- calculate_portfolio_risk ----
OptionSymbols == {"O1", "O2"}
Position(type, size, symbol) == [type |-> type, size |-> size, symbol |-> symbol]
RiskPortfolios ==
    { << >>,
      << Position("spot", 10, "BTC/USDT"), Position("perp", -10, "BTC/USDT:USDT") >>,
      << Position("spot", 10, "BTC/USDT"), Position("option", 20, "O1") >>,
      << Position("option", 20, "O1"), Position("option", -10, "O2") >>,
      << Position("spot", 30, "BTC/USDT"), Position("perp", -5, "BTC/USDT:USDT"),
         Position("option", 10, "O2") >> }
RiskPrices == {0, 50000}
\* what fetch_option_ticker gives: None, or the ticker of the exchange
NoTicker == [fetched |-> FALSE, ticker |-> Ticker(NoName, NoGreeksData, NoMark)]
Fetched(ticker) == [fetched |-> TRUE, ticker |-> ticker]
TickerFetches ==
    { NoTicker,
      Fetched(Ticker(<<"BTC", "27JUN25", "60000", "C">>, NoGreeksData, 2)),
      Fetched(Ticker(<<"BTC", "27JUN25", "60000", "P">>, GreeksData(-40, 1, 10, -3), 2)) }

NoRisk == [empty |-> TRUE, total_delta_usd |-> 0, total_gamma_usd |-> 0,
           total_vega_usd |-> 0, total_theta_usd |-> 0]

\* size = position.get('size', 0)
PositionSizeCapped(position) == Min(position.size, 20)
PositionSize(position) == position.size

\* the Greeks the loop gets for an option position: the ticker, then its Greeks
OptionGreeks(position, btc_price, fetches) ==
    IF ~fetches[position.symbol].fetched THEN NoGreeks
    ELSE calculate_option_greeks(btc_price, fetches[position.symbol].ticker,
                                 FALSE, FALSE, 0, 0, NoGreeks)

\* one pass of the loop body: the totals after the position
AddPosition(totals, position, btc_price, fetches) ==
    LET size == PositionSize(position)
        greeks == OptionGreeks(position, btc_price, fetches)
    IN  IF position.type \in {"spot", "perp"}
        THEN [totals EXCEPT !.total_delta_usd = @ + size * GreekDen * btc_price]
        ELSE IF position.type = "option" /\ greeks.returned = "greeks"
        THEN [totals EXCEPT !.total_delta_usd = @ + size * greeks.delta * btc_price,
                            !.total_gamma_usd = @ + size * greeks.gamma * btc_price,
                            !.total_vega_usd = @ + size * greeks.vega,
                            !.total_theta_usd = @ + size * greeks.theta]
        ELSE totals

RECURSIVE AddPositions(_, _, _, _)
AddPositions(totals, portfolio, btc_price, fetches) ==
    IF portfolio = << >> THEN totals
    ELSE AddPositions(AddPosition(totals, Head(portfolio), btc_price, fetches),
                      Tail(portfolio), btc_price, fetches)

calculate_portfolio_risk(portfolio, btc_price, fetches) ==
    IF btc_price = 0 THEN NoRisk
    ELSE AddPositions([NoRisk EXCEPT !.empty = FALSE], portfolio, btc_price, fetches)

NoPortfolioRisk ==
    [called |-> FALSE, portfolio |-> << >>, btc_price |-> 0,
     fetches |-> [o \in OptionSymbols |-> NoTicker], result |-> NoRisk]

PortfolioRiskCall ==
    \E portfolio \in RiskPortfolios, btc_price \in RiskPrices,
       fetches \in [OptionSymbols -> TickerFetches] :
        /\ portfolio_risk' =
              [called |-> TRUE, portfolio |-> portfolio, btc_price |-> btc_price,
               fetches |-> fetches,
               result |-> calculate_portfolio_risk(portfolio, btc_price, fetches)]
        /\ UNCHANGED greeks_call

InitGreeks ==
    /\ greeks_call = NoGreeksCall
    /\ portfolio_risk = NoPortfolioRisk

(***************************************************************************)
(* SimulatedPortfolio.on_fill on a portfolio with a perp position of either *)
(* sign                                                                    *)
(***************************************************************************)
\* a SimulatedPortfolio holding cur perp contracts entered at basis
PortfolioHolding(cur, basis) ==
    [cash |-> 100000 * QScale,
     holdings |-> [BTC_spot |-> 0, BTC_perp |-> cur],
     held |-> IF cur = 0 THEN {} ELSE {"BTC_perp"},
     total_commissions |-> 0,
     realized_hedge_pnl |-> 0,
     perp_cost_basis |-> IF cur = 0 THEN 0 ELSE basis]

\* execute_order on a drawn perp order, then on_fill on a drawn portfolio: perp
\* holdings short, flat and long of 0.001 and 0.002 at a cost basis in whole USD (a
\* flat portfolio has the basis 0.0), orders of 0.001 to 0.003 of either side
FillCall ==
    \E cur \in {-20, -10, 0, 10, 20}, basis \in {40000, 50000},
       quantity \in {-30, -20, -10, 10, 20, 30}, market_price \in {40000, 50000} :
        LET before == PortfolioHolding(cur, basis)
            fill == execute_order([asset |-> "BTC_perp", quantity |-> quantity],
                                  market_price)
        IN  \E residue \in FloatResidues(cur, quantity) :
                ledger' = [called |-> TRUE, before |-> before, fill |-> fill,
                           after |-> on_fill(before, fill, residue)]

InitFill ==
    ledger = [called |-> FALSE, before |-> PortfolioHolding(0, 0), fill |-> NoFill,
              after |-> PortfolioHolding(0, 0)]

(***************************************************************************)
(* Specifications                                                          *)
(***************************************************************************)
\* the backtest: one Backtester, constructed, run and reported
Init == InitBacktest /\ InitLive /\ InitBeta /\ InitRisk /\ InitRoute /\ InitGreeks /\ InitFill

Next ==
    \/ StartRun /\ UNCHANGED <<liveVars, engVars>>
    \/ FirstBar /\ UNCHANGED <<liveVars, engVars>>
    \/ NextBar /\ UNCHANGED <<liveVars, engVars>>
    \/ GenerateReport /\ UNCHANGED <<liveVars, engVars>>

Spec == Init /\ [][Next]_vars

\* the live bot: commands of the users interleaved with the periodic job; the
\* users dismiss the alerts they get
LiveInit ==
    /\ InitBacktest
    /\ strategy = [initial_capital |-> 100000 * QScale, initial_spot_holding |-> QScale,
                   hedge_ratio |-> 6, delta_threshold |-> 1000 * QScale,
                   use_regime_filter |-> TRUE, ma |-> [fast |-> 1, slow |-> 2]]
    /\ InitLive
    /\ InitBeta
    /\ InitRisk
    /\ InitRoute
    /\ InitGreeks
    /\ InitFill

\* a command arrives: the dispatcher runs its handler
Command(handler) ==
    /\ ncmds < MaxCmds
    /\ ncmds' = ncmds + 1
    /\ handler
    /\ UNCHANGED <<btVars, engVars>>

LiveNext ==
    \/ \E u \in Users : Command(monitor_risk_command(u))
    \/ \E u \in Users : Command(auto_hedge_command(u))
    \/ \E u \in Users : Command(set_large_trade_limit_command(u))
    \/ \E u \in Users : Command(configure_strategy_command(u))
    \/ \E u \in Users : Command(adjust_delta_received(u))
    \/ JobStart /\ UNCHANGED <<btVars, engVars>>
    \/ JobEvalUser(TRUE) /\ UNCHANGED <<btVars, engVars>>
    \/ JobExecute /\ UNCHANGED <<btVars, engVars>>
    \/ JobEnd /\ UNCHANGED <<btVars, engVars>>

LiveSpec == LiveInit /\ [][LiveNext]_vars

\* the live bot while the venue quotes one pair of prices: commands, presses of
\* "Hedge Now" and the periodic job
HedgeNext ==
    \/ \E u \in Users : Command(monitor_risk_command(u))
    \/ \E u \in Users : Command(auto_hedge_command(u))
    \/ \E u \in Users : Command(button_callback_handler(u))
    \/ JobStart /\ job'.spot = QuotedPrices.spot /\ job'.perp = QuotedPrices.perp
                /\ UNCHANGED <<btVars, engVars>>
    \/ \E dismissed \in BOOLEAN : JobEvalUser(dismissed) /\ UNCHANGED <<btVars, engVars>>
    \/ JobExecute /\ UNCHANGED <<btVars, engVars>>
    \/ JobEnd /\ UNCHANGED <<btVars, engVars>>

HedgeSpec == LiveInit /\ [][HedgeNext]_vars

\* the beta estimator: concurrent calls of calculate_beta on one RiskEngine
BetaInit == LiveInit

BetaNext ==
    \/ \E t \in Tasks : BetaCall(t) /\ UNCHANGED <<btVars, liveVars, riskVars, routeVars, greekVars, fillVars>>
    \/ \E t \in Tasks : BetaFetched(t) /\ UNCHANGED <<btVars, liveVars, riskVars, routeVars, greekVars, fillVars>>
    \/ Tick /\ UNCHANGED <<btVars, liveVars, riskVars, routeVars, greekVars, fillVars>>

BetaSpec == BetaInit /\ [][BetaNext]_vars

\* the stateless estimators of the risk engine, called with drawn arguments
RiskInit == LiveInit

RiskNext ==
    \/ VarCall /\ UNCHANGED <<btVars, liveVars, betaVars, routeVars, greekVars, fillVars>>
    \/ EstimateCall /\ UNCHANGED <<btVars, liveVars, betaVars, routeVars, greekVars, fillVars>>

RiskSpec == RiskInit /\ [][RiskNext]_vars

\* the venue router, called with drawn sizes and fetched books
RouteInit == LiveInit

RouteNext ==
    \/ RouteCall /\ routing'.result.returned = "plan"
                 /\ UNCHANGED <<btVars, liveVars, betaVars, riskVars, greekVars, fillVars>>
    \/ RouteCall /\ routing'.result.returned # "plan"
                 /\ UNCHANGED <<btVars, liveVars, betaVars, riskVars, greekVars, fillVars>>

RouteSpec == RouteInit /\ [][RouteNext]_vars

\* the option Greeks and the portfolio aggregation, called with drawn inputs
GreeksInit == LiveInit

GreeksNext ==
    \/ GreeksCall /\ UNCHANGED <<btVars, liveVars, betaVars, riskVars, routeVars, fillVars>>
    \/ PortfolioRiskCall /\ UNCHANGED <<btVars, liveVars, betaVars, riskVars, routeVars, fillVars>>

GreeksSpec == GreeksInit /\ [][GreeksNext]_vars

\* the ledger: on_fill applied to drawn portfolios and fills
FillNext ==
    \/ FillCall /\ ledger'.before.holdings.BTC_perp * ledger'.after.holdings.BTC_perp >= 0
                /\ UNCHANGED <<btVars, liveVars, betaVars, riskVars, routeVars, greekVars>>
    \/ FillCall /\ ledger'.before.holdings.BTC_perp * ledger'.after.holdings.BTC_perp < 0
                /\ UNCHANGED <<btVars, liveVars, betaVars, riskVars, routeVars, greekVars>>

FillSpec == LiveInit /\ [][FillNext]_vars

(***************************************************************************)
(* Properties of the backtest (under Spec)                                 *)
(***************************************************************************)
\* a step of Spec that is one iteration of the loop of Backtester.run
BarStep == pc' = "running"

\* C1: every fill applied by on_fill, anywhere in a run, changes cash by exactly
\* -(quantity * fill_price + commission), quantity signed: a buy reduces cash, a
\* sell increases it.
CashChangesByFill ==
    [][(BarStep /\ last_fill' # NoFill) =>
          cash' = cash - (last_fill'.quantity * last_fill'.fill_price
                          + last_fill'.commission)]_vars

\* a buy was filled after an earlier fill
CashChangesByFillWitness ==
    /\ last_fill # NoFill
    /\ last_fill.quantity > 0
    /\ total_commissions > last_fill.commission

\* C2: whenever a run has produced its report, the three attribution lines add up
\* to the ledger's net P&L: pnl_from_spot + pnl_from_hedges - total_costs = net_pnl
\* (here to within 1 USD, far above the stated relative tolerance of 1e-6).
AttributionTolerance == QScale
AttributionIdentity ==
    report.status = "ok" =>
        Abs(report.spot_pnl + report.hedge_pnl - report.total_costs - report.net_pnl)
            <= AttributionTolerance

\* the discrepancy of the specification at a row, from the holdings h before it:
\* derivative_quantity * derivative_price - (-spot_value * hedge_ratio)
Discrepancy(h, row, strat) ==
    h.BTC_perp * row.perp + ((h.BTC_spot * row.spot) \div 10) * strat.hedge_ratio

HedgingActive(regime) == regime \in {"NEUTRAL", "BEARISH"}

\* C5: on a bar where hedging is active (filter off, or BEARISH) a trade is needed
\* iff |discrepancy| > delta_threshold, and when |discrepancy| <= delta_threshold
\* the bar produces no order and leaves cash and holdings unchanged.
TradeNeededIffOutsideBand ==
    [][(BarStep /\ HedgingActive(decision'.regime)) =>
          LET d == Discrepancy(holdings, bars'[Len(bars')], strategy)
          IN  /\ decision'.trade_needed <=> (Abs(d) > strategy.delta_threshold)
              /\ Abs(d) <= strategy.delta_threshold =>
                    (last_fill' = NoFill /\ cash' = cash /\ holdings' = holdings)]_vars

\* a bearish bar found the portfolio off target but inside the band, and did nothing
TradeNeededIffOutsideBandWitness ==
    /\ decision.regime = "BEARISH"
    /\ decision.evaluated
    /\ ~decision.trade_needed
    /\ decision.delta_to_correct # 0
    /\ last_fill = NoFill

\* the worked example: 1.0 spot at 50,000, derivative at 50,000, hedge ratio 0.6,
\* threshold 1,000, regime filter off, no derivative holding, first bar evaluated
WorkedExampleCase ==
    /\ pc = "running"
    /\ bars = << [spot |-> 50000, perp |-> 50000] >>
    /\ strategy.initial_spot_holding = QScale
    /\ strategy.hedge_ratio = 6
    /\ strategy.delta_threshold = 1000 * QScale
    /\ ~strategy.use_regime_filter

\* C6 as stated: in the worked example the discrepancy is 20,000 and the engine
\* trades -0.4 derivative units.
WorkedExampleAsStated ==
    WorkedExampleCase =>
        /\ decision.delta_to_correct = 20000 * QScale
        /\ decision.contracts_to_trade = -4000
        /\ holdings.BTC_perp = -4000

\* C6 amended: in the worked example the target hedge value is -30,000, the
\* discrepancy is 30,000 and the engine trades -0.6 derivative units (short).
WorkedExampleAmended ==
    WorkedExampleCase =>
        /\ decision.delta_to_correct = 30000 * QScale
        /\ decision.trade_needed
        /\ decision.contracts_to_trade = -6000
        /\ last_fill.quantity = -6000
        /\ holdings.BTC_perp = -6000

\* C7 as stated: on an evaluated BULLISH bar with any non-zero derivative holding
\* the engine trades exactly the negative of the holding, so that the derivative
\* symbol is absent from holdings after the bar.
ForceCloseAnyHolding ==
    [][(BarStep /\ decision'.regime = "BULLISH" /\ holdings.BTC_perp # 0) =>
          /\ last_fill'.quantity = -holdings.BTC_perp
          /\ holdings'.BTC_perp = 0]_vars

\* C7 amended: on an evaluated BULLISH bar with a derivative holding of magnitude
\* above 0.001 the engine trades exactly the negative of the holding, whatever
\* delta_threshold is, so that the derivative symbol is absent after the bar.
ForceCloseHedge ==
    [][(BarStep /\ decision'.regime = "BULLISH" /\ Abs(holdings.BTC_perp) > 10) =>
          /\ decision'.trade_needed
          /\ last_fill'.asset = "BTC_perp"
          /\ last_fill'.quantity = -holdings.BTC_perp
          /\ holdings'.BTC_perp = 0]_vars

\* a bullish bar closed a hedge
ForceCloseHedgeWitness ==
    /\ decision.regime = "BULLISH"
    /\ last_fill # NoFill
    /\ holdings.BTC_perp = 0
    /\ realized_hedge_pnl # 0

\* C8: a bar on which the regime is UNDETERMINED (filter on, fewer rows than the
\* slow window) is skipped entirely: no order, nothing logged, and cash, holdings,
\* commissions, cost basis and realized P&L are unchanged.
UndeterminedBarSkipped ==
    [][(BarStep /\ strategy.use_regime_filter /\ Len(bars') < strategy.ma.slow) =>
          /\ last_fill' = NoFill
          /\ ~decision'.evaluated
          /\ UNCHANGED <<cash, holdings, total_commissions, perp_cost_basis,
                         realized_hedge_pnl, positions_value, history>>]_vars

\* the second row of a series was skipped for want of history
UndeterminedBarSkippedWitness ==
    /\ pc = "running"
    /\ decision.regime = "UNDETERMINED"
    /\ Len(bars) = 2
    /\ history = <<>>

\* C11: in every state of a backtest run no holding is kept whose magnitude is
\* below 1e-9: every key of the holdings map carries a quantity that is not
\* (near) zero.
NoNearZeroHolding == \A symbol \in held : holdings[symbol] # 0

\* C12: during a run cash and holdings change only inside on_fill: every step of
\* Backtester.run that changes cash, a held quantity or the keys of the holdings
\* map is a loop iteration that applied a fill.
FillSoleMutator ==
    [][(cash' # cash \/ holdings' # holdings \/ held' # held) =>
          (BarStep /\ last_fill' # NoFill)]_vars

\* C13: the simulated execution handler fills in the adverse direction and reports
\* the costs separately: a buy fills at price * (1 + slippage_pct), a sell at
\* price * (1 - slippage_pct); commission = fee_rate * |quantity * fill_price| >= 0;
\* slippage_cost = |quantity| * price * slippage_pct >= 0, a field of its own.
AdverseFill ==
    [][(BarStep /\ last_fill' # NoFill) =>
          LET fill == last_fill'
              price == bars'[Len(bars')].perp
          IN  /\ fill.quantity > 0 =>
                    fill.fill_price * RateDen = price * (RateDen + SlippagePct)
              /\ fill.quantity < 0 =>
                    fill.fill_price * RateDen = price * (RateDen - SlippagePct)
              /\ fill.commission = MulRate(Abs(fill.quantity * fill.fill_price), FeeRate)
              /\ fill.commission >= 0
              /\ fill.slippage_cost = MulRate(Abs(fill.quantity) * price, SlippagePct)
              /\ fill.slippage_cost >= 0]_vars

\* a buy was filled above the market while a short bought earlier below it stays open
AdverseFillWitness ==
    /\ pc = "running"
    /\ last_fill.quantity > 0
    /\ last_fill.fill_price > bars[Len(bars)].perp
    /\ last_fill.slippage_cost > 0
    /\ last_fill.commission > 0
    /\ holdings.BTC_perp < 0

(***************************************************************************)
(* Properties of the live bot (under LiveSpec)                             *)
(***************************************************************************)
\* a step of LiveSpec in which the job handles the configuration of user u
JobHandles(u) == job.pc = "loop" /\ job.todo # <<>> /\ Head(job.todo) = u /\ job' # job

\* C3: no hedge with a quantity of magnitude below 0.001 is ever logged (and so
\* none changes a holding): a dust quantity never produces a fill.
NoDustHedge == \A i \in DOMAIN hedge_history : Abs(hedge_history[i].size) >= 10

\* the live decision says "trade" (executed, or recommended to the user)
LiveTrades(d) == d.what \in {"execute", "large_trade_alert", "alert"}

\* C4: for the same holdings, prices and configuration (regime filter off) the job
\* and the backtest loop decide the same: both trade or neither does, and the
\* signed derivative quantity is the same.  Quantities the job sizes below the
\* dust floor are left to C3.
LiveBacktestParity ==
    \A u \in Users :
        (job.pc = "loop" /\ job.todo # <<>> /\ Head(job.todo) = u
            /\ db_holdings[u] # NoHoldings /\ ~job.configs[u].use_regime_filter) =>
        LET cfg == job.configs[u]
            live == LiveDecide(db_holdings[u], job.spot, job.perp, cfg)
            bt == BacktestDecide([BTC_spot |-> db_holdings[u].spot,
                                  BTC_perp |-> db_holdings[u].perp],
                                 [spot |-> job.spot, perp |-> job.perp],
                                 [hedge_ratio |-> cfg.hedge_ratio,
                                  delta_threshold |-> cfg.delta_threshold],
                                 TRUE)
        IN  (LiveTrades(live) => Abs(live.size) > 10) =>
                /\ LiveTrades(live) <=> bt.fills
                /\ LiveTrades(live) => live.size = bt.contracts_to_trade

\* C9: when the configuration the cycle read for a user has auto_hedge_enabled
\* off, the cycle never executes a hedge for that user: execute_hedge_logic is not
\* called, no hedge is logged, no holding changes; a needed hedge is only
\* recommended in an alert.
ManualModeNeverExecutes ==
    [][\A u \in Users :
          (JobHandles(u) /\ ~job.configs[u].auto_hedge_enabled) =>
              /\ job'.pc # "exec"
              /\ hedge_history' = hedge_history
              /\ db_holdings' = db_holdings
              /\ outcome'[u] \in {"no_holdings", "within_threshold", "alert", "raised"}]_vars

\* a cycle alerted a user in manual mode whose stored holdings it left alone
ManualModeNeverExecutesWitness ==
    \E u \in Users :
        /\ outcome[u] = "alert"
        /\ ~positions[u].auto_hedge_enabled
        /\ db_holdings[u].perp = 0
        /\ hedge_history = <<>>

\* C10: with auto_hedge_enabled on, a needed hedge goes straight to
\* execute_hedge_logic in the same cycle (which logs it and moves the perp holding by
\* its signed size once a venue answers), unless a large-trade limit is configured
\* and |quantity * derivative_price| exceeds it: then nothing is executed, ledger
\* and holdings are unchanged, and the manual-confirmation alert is sent instead.
\* Stated for the steps in which neither a send nor the venue search raises.
AutoModeExecutesUnlessLarge ==
    [][\A u \in Users :
          LET cfg == job.configs[u]
              net == db_holdings[u].spot * job.spot + db_holdings[u].perp * job.perp
              quantity == RDiv(-net, job.perp)
              notional == Abs(quantity * job.perp)
              large == cfg.large_trade_threshold # 0 /\ notional > cfg.large_trade_threshold
          IN  /\ (JobHandles(u) /\ cfg.auto_hedge_enabled /\ db_holdings[u] # NoHoldings
                    /\ Abs(net) > cfg.delta_threshold /\ outcome'[u] # "raised") =>
                    IF large
                    THEN /\ outcome'[u] = "large_trade_alert"
                         /\ job'.pc = "loop"
                         /\ hedge_history' = hedge_history
                         /\ db_holdings' = db_holdings
                    ELSE /\ outcome'[u] = "auto_triggered"
                         /\ job'.pc = "exec"
                         /\ job'.size = quantity
              /\ (job.pc = "exec" /\ Head(job.todo) = u /\ job' # job
                    /\ outcome'[u] # "raised") =>
                    \/ /\ outcome'[u] = "auto_executed"
                       /\ hedge_history' = Append(hedge_history,
                              [chat_id |-> u, hedge_type |-> "perp",
                               action |-> IF job.size < 0 THEN "short" ELSE "long",
                               size |-> job.size])
                       /\ db_holdings'[u].perp = db_holdings[u].perp + job.size
                    \/ /\ outcome'[u] = "hedge_failed"
                       /\ hedge_history' = hedge_history
                       /\ db_holdings' = db_holdings]_vars

\* a cycle downgraded an over-limit hedge of an auto-hedging user to an alert
AutoModeExecutesUnlessLargeWitness ==
    \E u \in Users :
        /\ outcome[u] = "large_trade_alert"
        /\ positions[u].auto_hedge_enabled
        /\ positions[u].large_trade_threshold > 0
        /\ db_holdings[u].perp = 0

(***************************************************************************)
(* Properties of the beta estimator (under BetaSpec)                       *)
(***************************************************************************)
\* a step in which task t passes the cache check of a new call
Checks(t) == calls[t].pc # "fetching" /\ calls'[t] # calls[t]
\* a step in which the call of task t resumes after its fetches and returns
Resumes(t) == calls[t].pc = "fetching" /\ calls'[t] # calls[t]

\* C14: a call returns the cached beta of its own key exactly while
\* now - computed_at < 4 hours; with no entry, or one aged 4 hours or more, it
\* fetches again, and the beta it then computes overwrites the entry of its key
\* with the current time.  Entries of other keys are neither served nor touched.
BetaCacheFreshness ==
    [][\A t \in Tasks :
          LET key == calls'[t].key
              fresh == /\ key \in DOMAIN beta_cache
                       /\ now - beta_cache[key].timestamp < 4
              r == calls'[t].result
          IN  /\ (Checks(t) /\ fresh) =>
                    /\ calls'[t].pc = "returned"
                    /\ r.kind = "beta" /\ r.from_cache
                    /\ r.beta = beta_cache[key].beta
                    /\ beta_cache' = beta_cache
              /\ (Checks(t) /\ ~fresh) =>
                    /\ calls'[t].pc = "fetching"
                    /\ beta_cache' = beta_cache
              /\ (Resumes(t) /\ r.kind = "beta" /\ r.aligned >= 30) =>
                    /\ ~r.from_cache
                    /\ key \in DOMAIN beta_cache'
                    /\ beta_cache'[key] = [beta |-> r.beta, timestamp |-> now]
              /\ (Checks(t) \/ Resumes(t)) =>
                    \A k \in DOMAIN beta_cache : k # key =>
                        k \in DOMAIN beta_cache' /\ beta_cache'[k] = beta_cache[k]]_vars

\* one call was served an entry 3 hours old; an hour later another call on the same
\* key found it expired and is fetching, while another key has its own entry
BetaCacheFreshnessWitness ==
    \E t1, t2 \in Tasks :
        /\ calls[t1].result.from_cache /\ calls[t1].result.age = 3
        /\ calls[t2].pc = "fetching" /\ calls[t2].key = calls[t1].key
        /\ now - beta_cache[calls[t1].key].timestamp >= 4
        /\ Cardinality(DOMAIN beta_cache) = 2

\* C15: under any interleaving of calls the cache is never corrupted: whenever it
\* changes, one resuming call has written the complete pair {its beta, the current
\* time} under its own key and nothing else (last writer wins); and a beta
\* returned from the cache was stored less than 4 hours before it was read.
BetaCacheSafe ==
    [][/\ beta_cache' # beta_cache =>
            \E t \in Tasks :
                /\ Resumes(t)
                /\ calls'[t].result.kind = "beta"
                /\ beta_cache' =
                      [k \in DOMAIN beta_cache \cup {calls[t].key} |->
                          IF k = calls[t].key
                          THEN [beta |-> calls'[t].result.beta, timestamp |-> now]
                          ELSE beta_cache[k]]
       /\ \A t \in Tasks :
            calls'[t].result.from_cache => calls'[t].result.age < 4]_vars

\* two calls on one key overlapped (both wrote within the same hour, so the second
\* had passed the cache check before the first wrote) and computed different betas:
\* the entry is the pair of one of them
BetaCacheSafeWitness ==
    /\ now = 0
    /\ calls[1].pc = "returned" /\ calls[2].pc = "returned"
    /\ calls[1].key = calls[2].key
    /\ calls[1].result.aligned >= 30 /\ calls[2].result.aligned >= 30
    /\ calls[1].result.beta # calls[2].result.beta
    /\ beta_cache[calls[1].key] = [beta |-> calls[2].result.beta, timestamp |-> 0]

\* C16: when the two fetched histories have fewer than 30 timestamp-aligned rows
\* the call returns exactly 1.0, not the coefficient of the data.
SparseHistoryDefault ==
    [][\A t \in Tasks :
          (Resumes(t) /\ calls'[t].spot = "frame" /\ calls'[t].perp = "frame"
              /\ calls'[t].result.aligned < 30) =>
              /\ calls'[t].pc = "returned"
              /\ calls'[t].result.kind = "beta"
              /\ calls'[t].result.beta = 10]_vars

\* a call that merged 10 aligned rows returned 1.0
SparseHistoryDefaultWitness ==
    \E t \in Tasks :
        /\ calls[t].pc = "returned"
        /\ calls[t].spot = "frame" /\ calls[t].perp = "frame"
        /\ calls[t].result.aligned = 10
        /\ calls[t].result.beta = 10

\* C17: when the fetch of either history fails (None, or an exception) the call
\* returns None without raising and leaves the cache as it was.
FetchFailureUnavailable ==
    [][\A t \in Tasks :
          (Resumes(t) /\ (calls'[t].spot \in {"None", "raised"}
                           \/ calls'[t].perp \in {"None", "raised"})) =>
              /\ calls'[t].pc = "returned"
              /\ calls'[t].result.kind = "None"
              /\ beta_cache' = beta_cache]_vars

\* a call whose perp fetch gave None returned None; its key has no entry, so the
\* next call on it fetches again
FetchFailureUnavailableWitness ==
    \E t \in Tasks :
        /\ calls[t].pc = "returned"
        /\ calls[t].spot = "frame" /\ calls[t].perp = "None"
        /\ calls[t].result.kind = "None"
        /\ calls[t].key \notin DOMAIN beta_cache

(***************************************************************************)
(* Properties of the stateless estimators (under RiskSpec)                 *)
(***************************************************************************)
\* the total spot value of the portfolio a VaR call was given: the sum of
\* size * price over its spot positions, a missing price counting 0
SpotValueOfCall ==
    LET p == var_call.portfolio
        Value(i) == IF p[i].type # "spot" THEN 0
                    ELSE IF <<p[i].asset, "/USDT">> \in DOMAIN var_call.prices
                         THEN p[i].size * var_call.prices[<<p[i].asset, "/USDT">>]
                         ELSE 0
    IN  IF Len(p) = 0 THEN 0
        ELSE IF Len(p) = 1 THEN Value(1)
        ELSE Value(1) + Value(2)

VarCalled == var_call.result.kind # "pending"
HistoryMissing == var_call.hist_df.outcome = "None" \/ var_call.hist_df.close = << >>

\* C18: historical VaR of a portfolio whose total spot value is zero is 0.0, not
\* unavailable, whether or not the history could be fetched.
ZeroExposureVarIsZero ==
    (VarCalled /\ SpotValueOfCall = 0) =>
        var_call.result = [kind |-> "value", value |-> 0]

\* the VaR of an empty portfolio was asked for while no history could be fetched
ZeroExposureVarIsZeroWitness ==
    /\ VarCalled
    /\ var_call.portfolio = << >>
    /\ var_call.hist_df.outcome = "None"
    /\ var_call.result.kind = "value"

\* C19 as stated: the estimator returns unavailable if the total portfolio value is
\* zero or if the history cannot be fetched (nothing, or an empty series).
VarUnavailableAsStated ==
    (VarCalled /\ (SpotValueOfCall = 0 \/ HistoryMissing)) =>
        var_call.result.kind = "None"

\* C19 amended: with a non-zero total value the estimator returns unavailable, and
\* no number, if the history cannot be fetched (nothing, or an empty series); with
\* a zero total value it returns 0.0.
VarUnavailableWithoutHistory ==
    /\ (VarCalled /\ SpotValueOfCall # 0 /\ HistoryMissing) =>
            var_call.result.kind = "None"
    /\ (VarCalled /\ SpotValueOfCall = 0) =>
            var_call.result = [kind |-> "value", value |-> 0]

\* the VaR of a portfolio worth 50,000 was asked for and the fetch gave an empty frame
VarUnavailableWithoutHistoryWitness ==
    /\ VarCalled
    /\ SpotValueOfCall = 50000 * QScale
    /\ var_call.hist_df = History(<< >>)
    /\ var_call.result.kind = "None"

\* the levels of the side an estimate walked, and the volume it should take at
\* level i: what is left of the size after the levels before it, at most the level
EstimateSide ==
    IF estimate.side = "buy" THEN estimate.order_book.asks ELSE estimate.order_book.bids
RECURSIVE DepthBefore(_)
DepthBefore(i) == IF i <= 1 THEN 0 ELSE EstimateSide[i - 1][2] + DepthBefore(i - 1)
ShouldTake(i) ==
    LET left == Abs(estimate.size) - DepthBefore(i)
    IN  IF left <= 0 THEN 0 ELSE IF left < EstimateSide[i][2] THEN left ELSE EstimateSide[i][2]
RECURSIVE NotionalUpTo(_)
NotionalUpTo(i) ==
    IF i = 0 THEN 0 ELSE ShouldTake(i) * EstimateSide[i][1] + NotionalUpTo(i - 1)
EstimateFilled ==
    /\ estimate.side # "none"
    /\ estimate.raised = "none"
    /\ DepthBefore(Len(EstimateSide) + 1) >= Abs(estimate.size)

\* C20: the estimate walks the asks for a buy and the bids for a sell in book
\* order, taking min(remaining, level size) at each level until the size is
\* filled; total notional is the sum of taken size * level price and the average
\* fill price is total notional / |size| (to the nearest 1/1000 USD).  For asks
\* [(100,1),(101,2)] and a buy of 2 it fills 1@100 + 1@101 and returns 100.5.
BookWalk ==
    /\ EstimateFilled =>
          LET r == estimate.result
          IN  /\ \A i \in 1..Len(estimate.taken) : estimate.taken[i] = ShouldTake(i)
              /\ \A i \in (Len(estimate.taken) + 1)..Len(EstimateSide) : ShouldTake(i) = 0
              /\ r.total_cost_usd = NotionalUpTo(Len(EstimateSide))
              /\ 2 * Abs(r.avg_fill_price * Abs(estimate.size)
                          - r.total_cost_usd * PriceScale) <= Abs(estimate.size)
    /\ (estimate.side = "buy" /\ estimate.size = 20
           /\ estimate.order_book.asks = << <<100, 10>>, <<101, 20>> >>) =>
          /\ estimate.taken = <<10, 10>>
          /\ estimate.result.avg_fill_price = 100500

\* the example: a buy of 2 against asks [(100,1),(101,2)] was estimated
BookWalkWitness ==
    /\ estimate.side = "buy"
    /\ estimate.size = 20
    /\ estimate.order_book.asks = << <<100, 10>>, <<101, 20>> >>
    /\ estimate.result.total_cost_usd = 2010

\* the keys of a returned cost analysis beyond its three figures
ResultFlags(result) ==
    DOMAIN result \ {"avg_fill_price", "total_cost_usd", "slippage_usd"}

EstimateShort ==
    /\ estimate.side # "none"
    /\ estimate.raised = "none"
    /\ DepthBefore(Len(EstimateSide) + 1) < Abs(estimate.size)

\* C21: when the walked side holds less than the requested size the remainder is
\* priced at the last level and the returned result carries a flag marking the
\* shortfall; when the depth suffices the result carries no flag.
ShortfallFlagged ==
    /\ EstimateShort =>
          /\ estimate.result.total_cost_usd =
                NotionalUpTo(Len(EstimateSide))
                + (Abs(estimate.size) - DepthBefore(Len(EstimateSide) + 1))
                  * EstimateSide[Len(EstimateSide)][1]
          /\ ResultFlags(estimate.result) # {}
    /\ EstimateFilled => ResultFlags(estimate.result) = {}

(***************************************************************************)
(* Properties of the venue router (under RouteSpec)                        *)
(***************************************************************************)
Routed == routing.result.returned # "pending"
\* the venues whose fetch gave a book, and those whose book has both sides
VenuesWithBook == {v \in {"bybit", "okx"} : routing.fetched[v].outcome = "book"}
UsableVenues ==
    {v \in VenuesWithBook : /\ routing.fetched[v].book.asks # << >>
                             /\ routing.fetched[v].book.bids # << >>}
\* notional plus fees of a buy, notional minus fees of a sell, at venue v
FinalCostAt(v) ==
    LET total == estimate_slippage_and_cost(routing.fetched[v].book, routing.size,
                                            IF routing.size > 0 THEN "buy" ELSE "sell")
                    .total_cost_usd
    IN  IF routing.size > 0 THEN total * FeeDen + total * TakerFee
        ELSE total * FeeDen - total * TakerFee

\* C22: the router evaluates every venue that returned an order book, adds the
\* flat taker fee and returns the venue with the minimum notional + fees for a
\* buy and the maximum notional - fees for a sell: no evaluated venue has a
\* strictly better value than the one returned.
BestVenueReturned ==
    (Routed /\ routing.result.returned = "plan") =>
        LET plan == routing.result.plan
        IN  /\ plan.venue \in VenuesWithBook
            /\ plan.total_final_cost = FinalCostAt(plan.venue)
            /\ \A v \in VenuesWithBook :
                  IF routing.size > 0
                  THEN plan.total_final_cost <= FinalCostAt(v)
                  ELSE plan.total_final_cost >= FinalCostAt(v)

\* a sell was routed to okx, whose proceeds are strictly higher than bybit's
BestVenueReturnedWitness ==
    /\ routing.size < 0
    /\ routing.result.returned = "plan"
    /\ routing.result.plan.venue = "okx"
    /\ routing.fetched["bybit"].outcome = "book"
    /\ routing.result.plan.total_final_cost > FinalCostAt("bybit")

\* C23: the router never crashes on unusable data: with no usable order book (no
\* book fetched, or a book with an empty asks or bids side) it returns none, and
\* a venue with an unusable book is skipped while the other venues are evaluated.
RouterNeverCrashes ==
    Routed =>
        /\ routing.result.raised = "none"
        /\ UsableVenues = {} => routing.result.returned = "None"
        /\ UsableVenues # {} =>
              /\ routing.result.returned = "plan"
              /\ routing.result.plan.venue \in UsableVenues

(***************************************************************************)
(* Properties of the Greeks (under GreeksSpec)                             *)
(***************************************************************************)
\* every position of the portfolio with twice its quantity
Doubled(portfolio) ==
    [i \in 1..Len(portfolio) |-> [portfolio[i] EXCEPT !.size = 2 * @]]
Twice(risk) ==
    [risk EXCEPT !.total_delta_usd = 2 * @, !.total_gamma_usd = 2 * @,
                 !.total_vega_usd = 2 * @, !.total_theta_usd = 2 * @]
\* the option positions whose ticker or Greeks the call could not get
MissingOptions ==
    {i \in 1..Len(portfolio_risk.portfolio) :
        /\ portfolio_risk.portfolio[i].type = "option"
        /\ OptionGreeks(portfolio_risk.portfolio[i], portfolio_risk.btc_price,
                        portfolio_risk.fetches).returned = "None"}

\* C24: calculate_portfolio_risk is linear in position quantity: with the same
\* prices and the same option Greeks, doubling the quantity of every position
\* doubles each of total delta, gamma, vega and theta.
LinearInQuantity ==
    portfolio_risk.called =>
        calculate_portfolio_risk(Doubled(portfolio_risk.portfolio),
                                 portfolio_risk.btc_price, portfolio_risk.fetches)
            = Twice(portfolio_risk.result)

\* a portfolio with spot, perp and a priced option was aggregated
LinearInQuantityWitness ==
    /\ portfolio_risk.called
    /\ Len(portfolio_risk.portfolio) = 3
    /\ MissingOptions = {}
    /\ portfolio_risk.result.total_delta_usd # 0
    /\ portfolio_risk.result.total_vega_usd # 0

\* C25: when the forecast-driven path is requested, calculate_option_greeks
\* returns none if the instrument name cannot be parsed, if the option has
\* expired, or if the forecaster has no model; in none of these cases does it
\* return Greeks obtained another way.
ForecastPathOrNone ==
    LET name == greeks_call.option_ticker.name
        unparsable == name = NoName \/ ParseRaises(name) \/ ~IsDate(name[2])
        expired == ~unparsable /\ ExpiryDatetime(name[2]) < greeks_call.clock
        no_model == ~greeks_call.garch_model
    IN  (greeks_call.called /\ greeks_call.use_ml_vol
            /\ (unparsable \/ expired \/ no_model))
        => greeks_call.result.returned = "None"

\* C28: when the ticker or the Greeks of any option position of the portfolio
\* is unavailable, the aggregate is reported as unavailable instead of totals
\* computed from the remaining positions.
NoPartialFigure ==
    (portfolio_risk.called /\ MissingOptions # {}) => portfolio_risk.result.empty

(***************************************************************************)
(* Configuration boundary and failure handling of the job (under LiveSpec) *)
(***************************************************************************)
\* a step of risk_check_job from its start (commands count themselves in ncmds)
CycleStarts == job.pc \in {"idle", "skipped"} /\ ncmds' = ncmds
\* the configurations the running cycle read
CycleConfigs == {u \in Users : job.pc \in {"loop", "exec"} /\ job.configs[u].present}

\* C26: after any sequence of configuration commands, every stored configuration
\* read by risk_check_job has 0 <= hedge_ratio <= 1 and delta_threshold > 0 (a
\* command carrying a violating value is rejected and changes nothing).
ConfigurationInvariant ==
    \A u \in CycleConfigs :
        /\ 0 <= job.configs[u].hedge_ratio /\ job.configs[u].hedge_ratio <= 10
        /\ job.configs[u].delta_threshold > 0

\* C27: within one cycle, a failure while evaluating or hedging one portfolio
\* does not prevent the portfolios after it from being evaluated in that cycle:
\* when the cycle is over, every configuration it read has been handled.
FailureIsolation ==
    [][(job.pc \in {"loop", "exec"} /\ job'.pc = "idle") =>
          \A u \in CycleConfigs : outcome'[u] # "none"]_vars

\* C29: if the spot price or the derivative price is unavailable at the start of
\* a cycle, the cycle ends without evaluating any portfolio: no hedge is executed
\* or logged, no holding changes, no alert is sent, and the job does not raise.
SkipOnMissingData ==
    [][(CycleStarts /\ (job'.spot = Unavailable \/ job'.perp = Unavailable)) =>
          /\ job'.pc = "skipped"
          /\ hedge_history' = hedge_history
          /\ db_holdings' = db_holdings
          /\ positions' = positions
          /\ \A u \in Users : outcome'[u] = "none"]_vars

\* a cycle was skipped for a missing derivative price while a user held an
\* unhedged spot position above the threshold
SkipOnMissingDataWitness ==
    /\ job.pc = "skipped"
    /\ job.spot # Unavailable
    /\ job.perp = Unavailable
    /\ \E u \in Users :
          /\ positions[u].present
          /\ db_holdings[u] = [spot |-> QScale, perp |-> 0]
          /\ job.spot * QScale > positions[u].delta_threshold
          /\ outcome[u] = "none"
    /\ hedge_history = << >>

(***************************************************************************)
(* Realized P&L of the backtest ledger (under Spec)                        *)
(***************************************************************************)
\* C30: whenever a derivative fill reduces or reverses an existing position,
\* realized P&L increases by (fill_price - cost_basis) * sign(existing_position)
\* * closed_quantity, closed_quantity = min(|fill quantity|, |existing position|);
\* a fill that opens or increases a position leaves realized P&L unchanged.
RealizedPnlBySign ==
    [][(BarStep /\ last_fill' # NoFill /\ last_fill'.asset = "BTC_perp") =>
          LET fill == last_fill'
              existing_position == holdings.BTC_perp
              reduces == /\ existing_position # 0
                         /\ Sgn(fill.quantity) # Sgn(existing_position)
              closed_quantity == Min(Abs(fill.quantity), Abs(existing_position))
          IN  realized_hedge_pnl' - realized_hedge_pnl =
                  IF reduces
                  THEN (fill.fill_price - perp_cost_basis)
                           * Sgn(existing_position) * closed_quantity
                  ELSE 0]_vars

(***************************************************************************)
(* Costs, value and cost basis of the backtest ledger (under Spec)         *)
(***************************************************************************)
RECURSIVE SumCommission(_)
SumCommission(fs) == IF fs = <<>> THEN 0 ELSE Head(fs).commission + SumCommission(Tail(fs))
RECURSIVE SumSlippage(_)
SumSlippage(fs) == IF fs = <<>> THEN 0 ELSE Head(fs).slippage_cost + SumSlippage(Tail(fs))

\* C33: after any sequence of fills the cumulative commissions equal the sum of
\* the fills' commission, and the total costs line of the report equals the
\* cumulative commissions plus the cumulative slippage (the sum of the fills'
\* slippage_cost).
CostAccumulation ==
    /\ total_commissions = SumCommission(fills)
    /\ report.status = "ok" =>
          report.total_costs = SumCommission(fills) + SumSlippage(fills)

\* C34: for any order executed at reference price p and applied by on_fill, the
\* mark-to-market value at p (cash + holdings * p for the traded asset, other
\* assets unchanged) decreases by exactly commission + slippage_cost.
ValueConservation ==
    [][(BarStep /\ last_fill' # NoFill) =>
          LET fill == last_fill'
              p == bars'[Len(bars')].perp
          IN  /\ cash' + holdings'[fill.asset] * p
                    = cash + holdings[fill.asset] * p
                        - (fill.commission + fill.slippage_cost)
              /\ \A asset \in DOMAIN holdings \ {fill.asset} :
                    holdings'[asset] = holdings[asset]]_vars

\* a sell was filled below the reference price and charged a commission
ValueConservationWitness ==
    /\ last_fill # NoFill
    /\ last_fill.quantity < 0
    /\ last_fill.fill_price < bars[Len(bars)].perp
    /\ last_fill.slippage_cost > 0
    /\ last_fill.commission > 0
    /\ Len(fills) = 2

\* C35: whenever total_value is read (when a bar's value is logged, and when
\* generate_report computes net P&L after the last bar) it equals cash + the sum
\* over the current holdings of quantity * the latest bar's price: a fill on the
\* last bar is reflected in both parts of the final total_value.
TotalValueCurrent ==
    [][/\ (BarStep /\ decision'.evaluated) =>
             history'[Len(history')] = cash + MarketValue(holdings, bars'[Len(bars')])
       /\ (pc' = "reported" /\ report'.status # "IndexError") =>
             /\ total_value' = cash' + MarketValue(holdings', bars'[Len(bars')])
             /\ report'.status = "ok" =>
                   report'.net_pnl = cash' + MarketValue(holdings', bars'[Len(bars')])
                                       - strategy.initial_capital]_vars

\* the end of an evaluated bar in which hedging is active
ActiveBarEnds == BarStep /\ decision'.evaluated /\ HedgingActive(decision'.regime)
\* the discrepancy left at the bar's prices once the bar is over
Remaining == Discrepancy(holdings', bars'[Len(bars')], strategy)
\* a traded quantity is a whole number of quantity units: what half a unit is worth
WithinRounding(d, row) == 2 * Abs(d) <= row.perp
\* evaluating the same bar again at the same prices fills nothing
NoFurtherTrade ==
    ~BacktestDecide(holdings', bars'[Len(bars')], strategy, TRUE).fills

\* C36, as stated: at the end of every evaluated bar in which hedging is active,
\* the remaining discrepancy |derivative_quantity * derivative_price + hedge_ratio
\* * spot_quantity * spot_price| is at most delta_threshold (zero if a trade was
\* made), so re-evaluating the same bar produces no further trade.
PostBarBoundAsStated ==
    [][ActiveBarEnds =>
          /\ IF last_fill' # NoFill
             THEN WithinRounding(Remaining, bars'[Len(bars')])
             ELSE Abs(Remaining) <= strategy.delta_threshold
          /\ NoFurtherTrade]_vars

\* C36, amended: the remaining discrepancy is zero if a trade was made; without
\* a trade it is at most delta_threshold, or the quantity that would correct it
\* is within the dust floor of 0.001 and was suppressed; in every case
\* re-evaluating the same bar produces no further trade.
PostBarBound ==
    [][ActiveBarEnds =>
          /\ IF last_fill' # NoFill
             THEN WithinRounding(Remaining, bars'[Len(bars')])
             ELSE \/ Abs(Remaining) <= strategy.delta_threshold
                  \/ Abs(RDiv(-Remaining, bars'[Len(bars')].perp)) <= Dust
          /\ NoFurtherTrade]_vars

\* a bar ended with a discrepancy above the threshold whose correction was dust
PostBarBoundWitness ==
    /\ pc = "running"
    /\ decision.evaluated
    /\ HedgingActive(decision.regime)
    /\ last_fill = NoFill
    /\ holdings.BTC_perp # 0
    /\ Abs(Discrepancy(holdings, bars[Len(bars)], strategy)) > strategy.delta_threshold

\* a step in which on_fill applied a derivative fill
PerpFillStep == BarStep /\ last_fill' # NoFill /\ last_fill'.asset = "BTC_perp"

\* C37: a fill that only reduces an existing derivative position (opposite sign,
\* smaller magnitude than the holding) leaves the cost basis of the remaining
\* position unchanged.
ReductionKeepsBasis ==
    [][(PerpFillStep /\ holdings.BTC_perp # 0
          /\ Sgn(last_fill'.quantity) # Sgn(holdings.BTC_perp)
          /\ Abs(last_fill'.quantity) < Abs(holdings.BTC_perp)) =>
              perp_cost_basis' = perp_cost_basis]_vars

\* C31: after a fill that opens a derivative position or increases it in the same
\* direction, cost basis is the quantity-weighted average of the previous basis
\* and the fill price; after a fill that fully closes the position, cost basis is
\* reset to zero; and cost basis is zero exactly when the derivative symbol is
\* absent from holdings.
CostBasisMaintained ==
    [][PerpFillStep =>
          LET fill == last_fill'
              existing == holdings.BTC_perp
              opens == existing = 0 \/ Sgn(fill.quantity) = Sgn(existing)
              closes == "BTC_perp" \in held /\ "BTC_perp" \notin held'
          IN  /\ opens =>
                    perp_cost_basis' =
                        RDiv(perp_cost_basis * Abs(existing)
                               + fill.fill_price * Abs(fill.quantity),
                             Abs(existing) + Abs(fill.quantity))
              /\ closes => perp_cost_basis' = 0
              /\ perp_cost_basis' = 0 <=> "BTC_perp" \notin held']_vars

(***************************************************************************)
(* A fill through zero (under FillSpec)                                    *)
(***************************************************************************)
\* the fill of the ledger crosses through zero: it closes the position held
\* before and opens one of the opposite sign
CrossesZero ==
    /\ ledger.called
    /\ ledger.before.holdings.BTC_perp * ledger.after.holdings.BTC_perp < 0

\* the part of fill that trades quantity at the same fill price, charged commission
SubFill(fill, quantity, commission) ==
    [fill EXCEPT !.quantity = quantity, !.cost = quantity * fill.fill_price,
                 !.commission = commission]

\* the portfolio after the closing part of fill and then the opening part
CloseThenOpen(p, fill) ==
    LET cur == p.holdings.BTC_perp
        closing_commission == MulRate(Abs(cur * fill.fill_price), FeeRate)
        closing == SubFill(fill, -cur, closing_commission)
        opening == SubFill(fill, fill.quantity + cur, fill.commission - closing_commission)
    IN  on_fill(on_fill(p, closing, 0), opening, 0)

\* C32: a fill that crosses through zero leaves the portfolio as the closing part
\* followed by the opening part at the same fill price would: the realized P&L is
\* that of the closed quantity only and the cost basis of the new position is the
\* fill price.
CrossingIsCloseThenOpen ==
    CrossesZero =>
        /\ ledger.after = CloseThenOpen(ledger.before, ledger.fill)
        /\ ledger.after.perp_cost_basis = ledger.fill.fill_price
        /\ ledger.after.realized_hedge_pnl =
               RealizedPnlOfFill(ledger.before.holdings.BTC_perp,
                                 ledger.before.perp_cost_basis,
                                 SubFill(ledger.fill, -ledger.before.holdings.BTC_perp, 0))

(***************************************************************************)
(* execute_hedge_logic and the "Hedge Now" button (under HedgeSpec)        *)
(***************************************************************************)
\* this step is the call of execute_hedge_logic by the job, for user u
JobHedgeStep(u) == job.pc = "exec" /\ job' # job /\ Head(job.todo) = u

\* this step is a press of the "Hedge Now" button of message i of user u that got
\* as far as execute_hedge_logic
ButtonHedgeStep(u, i) ==
    /\ ncmds' = ncmds + 1
    /\ i \in 1..Len(alerts[u])
    /\ Len(alerts'[u]) = Len(alerts[u])
    /\ alerts[u][i].text = "alert"
    /\ alerts'[u][i].text # "alert"

\* what this step did to the stored state is all of a hedge of size for u, or
\* nothing, according to whether a plan was found
HedgeAllOrNothing(u, size, plan_found) ==
    IF plan_found
    THEN /\ Len(hedge_history') = Len(hedge_history) + 1
         /\ SubSeq(hedge_history', 1, Len(hedge_history)) = hedge_history
         /\ hedge_history'[Len(hedge_history')].chat_id = u
         /\ hedge_history'[Len(hedge_history')].size = size
         /\ db_holdings' = [db_holdings EXCEPT ![u].perp = db_holdings[u].perp + size]
    ELSE UNCHANGED <<hedge_history, db_holdings>>

\* C38: a call of execute_hedge_logic, by the job or by the button, for which no
\* plan is found changes neither the hedge history nor any holding (and returns
\* None when its report is sent); one for which a plan is found adds exactly one
\* history row and changes the perp holding of that user by exactly the signed
\* size (a holding of 0 is a deleted row), and no other holding.
HedgeLogicAllOrNothing ==
    [][\A u \in Users :
          /\ JobHedgeStep(u) =>
                HedgeAllOrNothing(u, job.size, outcome'[u] = "auto_executed")
          /\ \A i \in 1..MaxAlerts :
                ButtonHedgeStep(u, i) =>
                    HedgeAllOrNothing(u, alerts[u][i].size, alerts'[u][i].text = "plan")]_vars

\* one user's press found a plan and hedged, another's found none and changed nothing
HedgeLogicAllOrNothingWitness ==
    \E u \in Users, v \in Users :
        /\ alerts[u] # <<>> /\ alerts[u][1].text = "plan"
        /\ db_holdings[u].perp = alerts[u][1].size
        /\ alerts[v] # <<>> /\ alerts[v][1].text = "failed"
        /\ db_holdings[v].spot # 0 /\ db_holdings[v].perp = 0
        /\ Len(hedge_history) = 1

\* the net portfolio delta of holdings h at the quoted prices
QuotedDelta(h) == NetPortfolioDelta(h, QuotedPrices.spot, QuotedPrices.perp)

\* C39: at unchanged prices, however the cycles of the job and the presses of
\* "Hedge Now" interleave, a hedge that is applied never leaves the net portfolio
\* delta of the user further from zero than it was before.
HedgeNeverMovesAway ==
    [][\A u \in Users :
          (/\ Len(hedge_history') = Len(hedge_history) + 1
           /\ hedge_history'[Len(hedge_history')].chat_id = u)
          => Abs(QuotedDelta(db_holdings'[u])) <= Abs(QuotedDelta(db_holdings[u]))]_vars

====
